---- MODULE Spec2Model ----
(***************************************************************************)
(* Sudoku-Solver-2: the board (board_utils.py), the strategy engine        *)
(* (strategies.py) and the backtracking engine (backtrack.py).             *)
(*                                                                         *)
(* A board is a function from the linear cell index 0..80 (the DataFrame   *)
(* index, row_n*9+col_n) to a record [ans, poss]. Python's None in the     *)
(* 'ans' column is written NoneAns (0): the code itself tests "if ans:",   *)
(* and no answer is ever 0 (set_cell rejects it, forward_fill draws from   *)
(* poss, a subset of 1..9).                                                *)
(***************************************************************************)
EXTENDS Integers, Sequences, FiniteSets, TLC

VARIABLES
    board,      \* SudokuBoard.df: cell index -> [ans, poss]
    pc,         \* position of the caller / of the running solve()
    given,      \* the starting_board last handed to set_puzzle (81 values, row-major)
    last,       \* the last call made: its name, arguments and how it ended
    old,        \* board.df as it was when the last call began
    history,    \* Backtrack.history: sequence of [indx, poss_left, ans]
    last_indx,  \* Backtrack.solve's local last_indx
    cur,        \* Backtrack.solve's locals (row_n, col_n), as a cell index
    conflict,   \* make_entry has logged "Entry at row .. has caused error."
    calls,      \* number of board calls made so far (bounded by MaxCalls)
    stage,      \* which apply_singles call of SudokuStrats.solve is running (1..3)
    nsol,       \* how many solutions the givens have (0, 1, 2 for more)
    quiet       \* no rule call of the current pass of solve's while loop changed the board

vars == <<board, pc, given, last, old, history, last_indx, cur, conflict, calls,
          stage, nsol, quiet>>

N == 9
NoneAns == 0
Digits == 1..9
Cells == 0..80

RowOf(i) == i \div 9
ColOf(i) == i % 9
\* 'sqr_n': 3*(row_n//3) + col_n//3
SqrOf(i) == 3 * (RowOf(i) \div 3) + (ColOf(i) \div 3)

\* f itself, held as an explicit table of its values: comparing a function
\* makes TLC enumerate it once instead of re-evaluating its defining
\* expression at every application.
Table(f) == IF f = f THEN f ELSE f

\* F of the value of v: v is evaluated once, wherever the expression stands.
With(v, F(_)) == CHOOSE r \in {F(x) : x \in {v}} : TRUE

\* The blank board built by __init__ and, again, by set_puzzle.
BlankBoard == Table([i \in Cells |-> [ans |-> NoneAns, poss |-> Digits]])

\* Ascending sequence of a finite set of integers (a DataFrame selection keeps
\* the index order).
SortedSeq(S) ==
    [k \in 1..Cardinality(S) |->
        CHOOSE x \in S : Cardinality({y \in S : y < x}) = k - 1]

\* The cells of the 27 units: rows 0..8, columns 0..8, squares 0..8.
CellsOf ==
    Table([u \in 1..27 |->
        IF u <= 9 THEN {i \in Cells : RowOf(i) = u - 1}
        ELSE IF u <= 18 THEN {i \in Cells : ColOf(i) = u - 10}
        ELSE {i \in Cells : SqrOf(i) = u - 19}])

RowCells(n) == CellsOf[n + 1]
ColCells(n) == CellsOf[n + 10]
SqrCells(n) == CellsOf[n + 19]

\* The 27 units in the order every *_scan walks them: rows, columns, squares;
\* each is the ascending sequence of its cells' indices.
Units == Table([u \in 1..27 |-> SortedSeq(CellsOf[u])])

(***************************************************************************)
(* SudokuBoard                                                             *)
(***************************************************************************)

\* rm_poss: set.discard, silent when the value is absent.
rm_poss(b, row_n, col_n, poss_to_rm) ==
    [b EXCEPT ![row_n * N + col_n].poss = @ \ {poss_to_rm}]

\* set_poss: clear the cell's set, then add every item of the new one.
set_poss(b, row_n, col_n, poss) ==
    [b EXCEPT ![row_n * N + col_n].poss = poss]

\* set_cell_bt that also empties the cell's candidate set, as set_cell does.
set_cell_bt_clear(b, row_n, col_n, ans) ==
    [b EXCEPT ![row_n * N + col_n] = [ans |-> ans, poss |-> {}]]

\* set_cell_bt: writes 'ans' only.
set_cell_bt(b, row_n, col_n, ans) ==
    [b EXCEPT ![row_n * N + col_n].ans = ans]

\* One loop of update_poss: rm_poss(ans) on each of the nine cells of a unit.
RmUnit(b, ids, ans) ==
    [b EXCEPT ![ids[1]].poss = @ \ {ans}, ![ids[2]].poss = @ \ {ans},
              ![ids[3]].poss = @ \ {ans}, ![ids[4]].poss = @ \ {ans},
              ![ids[5]].poss = @ \ {ans}, ![ids[6]].poss = @ \ {ans},
              ![ids[7]].poss = @ \ {ans}, ![ids[8]].poss = @ \ {ans},
              ![ids[9]].poss = @ \ {ans}]

\* update_poss without its first loop, over the row.
update_poss_no_row(b, row_n, col_n) ==
    RmUnit(RmUnit(b, Units[col_n + 10], b[row_n * N + col_n].ans),
           Units[3 * (row_n \div 3) + col_n \div 3 + 19], b[row_n * N + col_n].ans)

\* update_poss without its third loop, over the square.
update_poss_no_sqr(b, row_n, col_n) ==
    RmUnit(RmUnit(b, Units[row_n + 1], b[row_n * N + col_n].ans),
           Units[col_n + 10], b[row_n * N + col_n].ans)

\* update_poss: discard the cell's answer from every cell of its row, then of
\* its column, then of its square.
update_poss(b, row_n, col_n) ==
    LET ans == b[row_n * N + col_n].ans
        sqr_n == 3 * (row_n \div 3) + (col_n \div 3)
    IN  RmUnit(RmUnit(RmUnit(b, Units[row_n + 1], ans), Units[col_n + 10], ans),
               Units[sqr_n + 19], ans)

\* The values set_cell accepts (the model passes integers only).
ValidEntry(ans) == ans \in Digits

\* set_cell without the clear() of the cell's own candidate set.
set_cell_keep(b, row_n, col_n, ans) ==
    IF ~ValidEntry(ans)
    THEN [b |-> b, logged |-> "ValueError", raised |-> FALSE]
    ELSE LET b1 == [b EXCEPT ![row_n * N + col_n].ans = ans]
         IN  [b |-> update_poss(b1, row_n, col_n), logged |-> "none", raised |-> FALSE]

\* set_cell: returns the board and how the call ended. Both except clauses
\* log and swallow, so nothing is ever raised to the caller.
set_cell(b, row_n, col_n, ans) ==
    IF ~ValidEntry(ans)
    THEN [b |-> b, logged |-> "ValueError", raised |-> FALSE]
    ELSE LET b1 == [b EXCEPT ![row_n * N + col_n].ans = ans]
             b2 == [b1 EXCEPT ![row_n * N + col_n].poss = {}]
         IN  [b |-> update_poss(b2, row_n, col_n), logged |-> "none", raised |-> FALSE]

\* The inner loop with range(8) in place of range(9).
RECURSIVE set_puzzle_row_short(_, _, _, _)
set_puzzle_row_short(b, g, i, j) ==
    IF j > 7 THEN b
    ELSE IF g[i * N + j + 1] = 0 THEN set_puzzle_row_short(b, g, i, j + 1)
    ELSE LET r == set_cell(b, i, j, g[i * N + j + 1])
         IN  IF r.logged = "ValueError"
             THEN set_puzzle_row_short(b, g, i, j + 1)
             ELSE set_puzzle_row_short(r.b, g, i, j + 1)

\* set_puzzle's inner loop: row i of the starting board g (row-major, 0 =
\* blank), from column j on. A ValueError is logged inside set_cell and the
\* loop goes on.
RECURSIVE set_puzzle_row(_, _, _, _)
set_puzzle_row(b, g, i, j) ==
    IF j > 8 THEN b
    ELSE IF g[i * N + j + 1] = 0 THEN set_puzzle_row(b, g, i, j + 1)
    ELSE LET r == set_cell(b, i, j, g[i * N + j + 1])
         IN  IF r.logged = "ValueError"
             THEN set_puzzle_row(b, g, i, j + 1)
             ELSE set_puzzle_row(r.b, g, i, j + 1)

\* set_puzzle's outer loop, from row i on.
RECURSIVE set_puzzle_loop(_, _, _)
set_puzzle_loop(b, g, i) ==
    IF i > 8 THEN b
    ELSE LET b1 == set_puzzle_row(b, g, i, 0)
         IN  IF b1 = b THEN set_puzzle_loop(b, g, i + 1)
             ELSE set_puzzle_loop(b1, g, i + 1)

\* set_puzzle: a fresh blank DataFrame, then set_cell for every non-zero entry.
set_puzzle(g) == set_puzzle_loop(BlankBoard, g, 0)

\* set_puzzle handed a list of rows sb of any shape. The loops read
\* starting_board[row_n][col_n] for row_n, col_n in range(9), row by row: the
\* first row that is missing or has fewer than nine entries raises an
\* IndexError at its first missing entry, which set_puzzle's except clause
\* logs. Rows after the ninth and entries after a row's ninth are never read.
BadRows(sb) == {r \in 0..(N - 1) : r + 1 > Len(sb) \/ Len(sb[r + 1]) < N}

\* How many entries are read before the IndexError (81 if there is none).
ReadCount(sb) ==
    IF BadRows(sb) = {} THEN N * N
    ELSE LET r == CHOOSE x \in BadRows(sb) : \A y \in BadRows(sb) : x <= y
         IN  r * N + (IF r + 1 > Len(sb) THEN 0 ELSE Len(sb[r + 1]))

\* The entries read, row-major, 0 for those never reached.
ReadPart(sb) ==
    Table([k \in 1..81 |-> IF k <= ReadCount(sb)
                           THEN sb[((k - 1) \div N) + 1][((k - 1) % N) + 1] ELSE 0])

set_puzzle_rows(sb) ==
    [b |-> set_puzzle(ReadPart(sb)),
     logged |-> IF ReadCount(sb) < N * N THEN "IndexError" ELSE "none",
     raised |-> FALSE]

\* value_counts() > 2 in place of > 1: only a value held three times counts.
HasRepeatThrice(b, cells) ==
    \E i \in cells : \E j \in cells : \E k \in cells :
        i < j /\ j < k /\ b[i].ans # NoneAns /\ b[i].ans = b[j].ans /\ b[j].ans = b[k].ans

\* any(A.value_counts() > 1) over the answers of a set of cells: value_counts
\* drops None.
HasRepeat(b, cells) ==
    \E i \in cells : \E j \in cells :
        i < j /\ b[i].ans # NoneAns /\ b[i].ans = b[j].ans

\* check4errors without its column test.
check4errors_no_col(b, row_n, col_n) ==
    \/ HasRepeat(b, RowCells(row_n))
    \/ HasRepeat(b, SqrCells(3 * (row_n \div 3) + (col_n \div 3)))

\* check4errors without its row test.
check4errors_no_row(b, row_n, col_n) ==
    \/ HasRepeat(b, ColCells(col_n))
    \/ HasRepeat(b, SqrCells(3 * (row_n \div 3) + (col_n \div 3)))

\* check4errors without its square test.
check4errors_no_sqr(b, row_n, col_n) ==
    \/ HasRepeat(b, RowCells(row_n))
    \/ HasRepeat(b, ColCells(col_n))

check4errors(b, row_n, col_n) ==
    \/ HasRepeat(b, RowCells(row_n))
    \/ HasRepeat(b, ColCells(col_n))
    \/ HasRepeat(b, SqrCells(3 * (row_n \div 3) + (col_n \div 3)))

check4errors_full(b) ==
    \/ \E n \in 0..8 : HasRepeat(b, RowCells(n))
    \/ \E n \in 0..8 : HasRepeat(b, ColCells(n))
    \/ \E n \in 0..8 : HasRepeat(b, SqrCells(n))
    \/ \E i \in Cells : b[i].poss = {} /\ b[i].ans = NoneAns

\* puzzle_completed without its check4errors_full test.
puzzle_completed_no_check(b) ==
    ~\E i \in Cells : b[i].ans = NoneAns

puzzle_completed(b) ==
    (~\E i \in Cells : b[i].ans = NoneAns) /\ ~check4errors_full(b)

\* str(ans) as save_puzzle writes it.
StrOf(v) ==
    CASE v = 1 -> "1" [] v = 2 -> "2" [] v = 3 -> "3" [] v = 4 -> "4"
      [] v = 5 -> "5" [] v = 6 -> "6" [] v = 7 -> "7" [] v = 8 -> "8"
      [] v = 9 -> "9" [] OTHER -> "?"

\* save_puzzle: the text written, as the row-major sequence of its 81 fields
\* ("0" where the answer is falsy); commas and newlines separate them.
save_puzzle(b) ==
    [k \in 1..81 |-> IF b[k - 1].ans # NoneAns THEN StrOf(b[k - 1].ans) ELSE "0"]

\* int(field), as load_puzzle / set_puzzle read a saved field back.
IntOf(s) ==
    CASE s = "0" -> 0 [] s = "1" -> 1 [] s = "2" -> 2 [] s = "3" -> 3
      [] s = "4" -> 4 [] s = "5" -> 5 [] s = "6" -> 6 [] s = "7" -> 7
      [] s = "8" -> 8 [] s = "9" -> 9 [] OTHER -> -1

(***************************************************************************)
(* SudokuStrats. A rule works on st = [b, ok, conf]: the board, whether    *)
(* the call is still running (FALSE once an uncaught IndexError has left   *)
(* it), and whether make_entry has logged a conflict.                      *)
(*                                                                         *)
(* Python iterates set(all_poss) in hash order; the model walks the values *)
(* in ascending order.                                                     *)
(***************************************************************************)

\* make_entry: set_cell, then check4errors; the RuntimeError it raises is
\* caught by its own except clause and logged.
make_entry(st, row_n, col_n, ans) ==
    LET b1 == set_cell(st.b, row_n, col_n, ans).b
    IN  [st EXCEPT !.b = b1,
                   !.conf = st.conf \/ check4errors(b1, row_n, col_n)]

\* find_cell_with_poss over a unit (ids: its cell indices in order).
find_cell_with_poss(b, ids, poss) ==
    SelectSeq(ids, LAMBDA i : poss \in b[i].poss)

\* all_poss.count(poss): how many cells of the unit hold poss.
CountPoss(b, ids, poss) ==
    Cardinality({k \in 1..Len(ids) : poss \in b[ids[k]].poss})

RECURSIVE obvious_singles_loop(_, _, _)
obvious_singles_loop(st, A, k) ==
    IF k > Len(A) \/ ~st.ok THEN st
    ELSE LET indx == A[k]
             ps == st.b[indx].poss
         IN  IF ps = {}
             THEN [st EXCEPT !.ok = FALSE]    \* list(set())[0]: IndexError
             ELSE obvious_singles_loop(
                      make_entry(st, RowOf(indx), ColOf(indx),
                                 CHOOSE a \in ps : \A x \in ps : a <= x),
                      A, k + 1)

\* obvious_singles: A is selected once, before the loop.
obvious_singles(st) ==
    obvious_singles_loop(
        st, SortedSeq({i \in Cells : Cardinality(st.b[i].poss) = 1}), 1)

\* hidden_singles on one unit: cnt is all_poss counted before the loop.
RECURSIVE hidden_singles_loop(_, _, _, _)
hidden_singles_loop(st, ids, cnt, poss) ==
    IF poss > 9 \/ ~st.ok THEN st
    ELSE IF cnt[poss] # 1 THEN hidden_singles_loop(st, ids, cnt, poss + 1)
    ELSE LET found == find_cell_with_poss(st.b, ids, poss)
         IN  IF found = <<>>
             THEN [st EXCEPT !.ok = FALSE]    \* [][0]: IndexError
             ELSE hidden_singles_loop(
                      make_entry(st, RowOf(found[1]), ColOf(found[1]), poss),
                      ids, cnt, poss + 1)

hidden_singles(st, ids) ==
    hidden_singles_loop(
        st, ids, Table([p \in Digits |-> CountPoss(st.b, ids, p)]), 1)

RECURSIVE hidden_singles_scan_loop(_, _)
hidden_singles_scan_loop(st, u) ==
    IF u > 27 \/ ~st.ok THEN st
    ELSE hidden_singles_scan_loop(hidden_singles(st, Units[u]), u + 1)

\* hidden_singles_scan with the row scan only.
hidden_singles_scan_rows(st) ==
    hidden_singles_scan_loop(
        hidden_singles(hidden_singles(hidden_singles(hidden_singles(
            hidden_singles(hidden_singles(hidden_singles(hidden_singles(
                hidden_singles(st, Units[1]), Units[2]), Units[3]), Units[4]),
            Units[5]), Units[6]), Units[7]), Units[8]), Units[9]),
        28)

hidden_singles_scan(st) == hidden_singles_scan_loop(st, 1)

\* The removal without its "continue" for the cells of the group itself.
RmFromAll(b, ids, keep, ps) ==
    [i \in Cells |->
        IF \E k \in 1..Len(ids) : ids[k] = i
        THEN [b[i] EXCEPT !.poss = @ \ ps] ELSE b[i]]

\* rm_poss of every value of ps from every cell of the unit ids (nine cells)
\* except those in keep.
RmFromOthers(b, ids, keep, ps) ==
    [b EXCEPT ![ids[1]].poss = IF ids[1] \in keep THEN @ ELSE @ \ ps,
              ![ids[2]].poss = IF ids[2] \in keep THEN @ ELSE @ \ ps,
              ![ids[3]].poss = IF ids[3] \in keep THEN @ ELSE @ \ ps,
              ![ids[4]].poss = IF ids[4] \in keep THEN @ ELSE @ \ ps,
              ![ids[5]].poss = IF ids[5] \in keep THEN @ ELSE @ \ ps,
              ![ids[6]].poss = IF ids[6] \in keep THEN @ ELSE @ \ ps,
              ![ids[7]].poss = IF ids[7] \in keep THEN @ ELSE @ \ ps,
              ![ids[8]].poss = IF ids[8] \in keep THEN @ ELSE @ \ ps,
              ![ids[9]].poss = IF ids[9] \in keep THEN @ ELSE @ \ ps]

\* obvious_pairs that spares the cells after the matching cell.
obvious_pairs_spare_later(st, ids, indx_0) ==
    LET poss_set == st.b[indx_0].poss
        later == SelectSeq(ids, LAMBDA i : i > indx_0 /\ st.b[i].poss = poss_set)
    IN  IF later = <<>> THEN st
        ELSE [st EXCEPT !.b = RmFromOthers(st.b, ids,
                                {indx_0} \cup {i \in Cells : i >= later[1]}, poss_set)]

\* obvious_pairs: the first later cell of the unit whose set equals the
\* reference cell's set; the loop breaks after it.
obvious_pairs(st, ids, indx_0) ==
    LET poss_set == st.b[indx_0].poss
        later == SelectSeq(ids, LAMBDA i : i > indx_0 /\ st.b[i].poss = poss_set)
    IN  IF later = <<>> THEN st
        ELSE [st EXCEPT !.b = RmFromOthers(st.b, ids, {indx_0, later[1]}, poss_set)]

RECURSIVE obvious_pairs_scan_loop(_, _, _)
obvious_pairs_scan_loop(st, A, k) ==
    IF k > Len(A) \/ ~st.ok THEN st
    ELSE LET indx == A[k]
             s1 == obvious_pairs(st, Units[1 + RowOf(indx)], indx)
             s2 == obvious_pairs(s1, Units[10 + ColOf(indx)], indx)
             s3 == obvious_pairs(s2, Units[19 + SqrOf(indx)], indx)
         IN  obvious_pairs_scan_loop(s3, A, k + 1)

\* obvious_pairs_scan: A (the cells with two possibilities) is selected once,
\* before the loop.
obvious_pairs_scan(st) ==
    obvious_pairs_scan_loop(
        st, SortedSeq({i \in Cells : Cardinality(st.b[i].poss) = 2}), 1)

\* The inner loop without its same-two-cells test: the pair is written into
\* the cells that hold poss.
RECURSIVE hidden_pairs_inner_loose(_, _, _, _, _)
hidden_pairs_inner_loose(st, ids, cnt, poss, poss_1) ==
    IF poss_1 > 9 \/ ~st.ok THEN st
    ELSE IF cnt[poss_1] # 2 THEN hidden_pairs_inner_loose(st, ids, cnt, poss, poss_1 + 1)
    ELSE LET indices == find_cell_with_poss(st.b, ids, poss)
             b1 == Table([i \in Cells |->
                       IF \E k \in 1..Len(indices) : indices[k] = i
                       THEN [st.b[i] EXCEPT !.poss = {poss, poss_1}]
                       ELSE st.b[i]])
             s1 == [st EXCEPT !.b = b1, !.ok = Len(indices) >= 2]
         IN  hidden_pairs_inner_loose(s1, ids, cnt, poss, poss_1 + 1)

\* hidden_pairs, inner loop: poss_1 over the values after poss.
RECURSIVE hidden_pairs_inner(_, _, _, _, _)
hidden_pairs_inner(st, ids, cnt, poss, poss_1) ==
    IF poss_1 > 9 \/ ~st.ok THEN st
    ELSE IF cnt[poss_1] # 2 THEN hidden_pairs_inner(st, ids, cnt, poss, poss_1 + 1)
    ELSE LET indices == find_cell_with_poss(st.b, ids, poss)
         IN  IF indices # find_cell_with_poss(st.b, ids, poss_1)
             THEN hidden_pairs_inner(st, ids, cnt, poss, poss_1 + 1)
             ELSE LET b1 == Table([i \in Cells |->
                                IF \E k \in 1..Len(indices) : indices[k] = i
                                THEN [st.b[i] EXCEPT !.poss = {poss, poss_1}]
                                ELSE st.b[i]])
                      \* the log line reads indices[0] and indices[1]
                      s1 == [st EXCEPT !.b = b1, !.ok = Len(indices) >= 2]
                  IN  hidden_pairs_inner(s1, ids, cnt, poss, poss_1 + 1)

RECURSIVE hidden_pairs_outer(_, _, _, _)
hidden_pairs_outer(st, ids, cnt, poss) ==
    IF poss > 9 \/ ~st.ok THEN st
    ELSE IF cnt[poss] # 2 THEN hidden_pairs_outer(st, ids, cnt, poss + 1)
    ELSE hidden_pairs_outer(
             hidden_pairs_inner(st, ids, cnt, poss, poss + 1), ids, cnt, poss + 1)

\* hidden_pairs on one unit: cnt is all_poss counted before the loops.
hidden_pairs(st, ids) ==
    hidden_pairs_outer(
        st, ids, Table([p \in Digits |-> CountPoss(st.b, ids, p)]), 1)

RECURSIVE hidden_pairs_scan_loop(_, _)
hidden_pairs_scan_loop(st, u) ==
    IF u > 27 \/ ~st.ok THEN st
    ELSE hidden_pairs_scan_loop(hidden_pairs(st, Units[u]), u + 1)

hidden_pairs_scan(st) == hidden_pairs_scan_loop(st, 1)

\* The index triples (indx_1 < indx_2 < indx_3) of a selection of n cells, in
\* the order the three nested loops visit them.
RECURSIVE TriplesFrom(_, _, _, _)
TriplesFrom(n, i, j, k) ==
    IF i > n - 2 THEN <<>>
    ELSE IF j > n - 1 THEN TriplesFrom(n, i + 1, i + 2, i + 3)
    ELSE IF k > n THEN TriplesFrom(n, i, j + 1, j + 2)
    ELSE <<<<i, j, k>>>> \o TriplesFrom(n, i, j, k + 1)

Triples == [n \in 0..9 |-> TriplesFrom(n, 1, 2, 3)]

RECURSIVE obvious_triplets_loop(_, _, _, _, _)
obvious_triplets_loop(st, ids, A, T, t) ==
    IF t > Len(T) \/ ~st.ok THEN st
    ELSE LET c1 == A[T[t][1]]
             c2 == A[T[t][2]]
             c3 == A[T[t][3]]
             poss_union == st.b[c1].poss \cup st.b[c2].poss \cup st.b[c3].poss
         IN  IF Cardinality(poss_union) = 3
             THEN obvious_triplets_loop(
                      [st EXCEPT !.b = RmFromOthers(st.b, ids, {c1, c2, c3}, poss_union)],
                      ids, A, T, t + 1)
             ELSE obvious_triplets_loop(st, ids, A, T, t + 1)

\* obvious_triplets on one unit: A (the cells with two or three possibilities)
\* is selected once; the sets read inside the loops are the live ones.
obvious_triplets(st, ids) ==
    LET A == SelectSeq(ids, LAMBDA i : Cardinality(st.b[i].poss) \in {2, 3})
    IN  IF Len(A) >= 3
        THEN obvious_triplets_loop(st, ids, A, Triples[Len(A)], 1)
        ELSE st

RECURSIVE obvious_triplets_scan_loop(_, _)
obvious_triplets_scan_loop(st, u) ==
    IF u > 27 \/ ~st.ok THEN st
    ELSE obvious_triplets_scan_loop(obvious_triplets(st, Units[u]), u + 1)

obvious_triplets_scan(st) == obvious_triplets_scan_loop(st, 1)

\* hidden_triplets on one unit. For three values that each occur two or three
\* times the code builds indices = [set(indices_1+indices_2+indices_3)], a
\* list holding ONE set, and tests len(indices)==3: the list's length is 1,
\* so the reduction below the test never runs (it would index the board by
\* a set and fail, which is what the unreachable branch records).
hidden_triplets(st, ids) ==
    LET cnt == Table([p \in Digits |-> CountPoss(st.b, ids, p)])
        cand == {p \in Digits : cnt[p] \in {2, 3}}
        HitsOf(p1, p2, p3) ==
            <<{ids[k] : k \in {k \in 1..Len(ids) :
                  st.b[ids[k]].poss \cap {p1, p2, p3} # {}}}>>
        found == \E p1 \in cand : \E p2 \in cand : \E p3 \in cand :
                    p1 < p2 /\ p2 < p3 /\ Len(HitsOf(p1, p2, p3)) = 3
    IN  IF found THEN [st EXCEPT !.ok = FALSE] ELSE st

RECURSIVE hidden_triplets_scan_loop(_, _)
hidden_triplets_scan_loop(st, u) ==
    IF u > 27 \/ ~st.ok THEN st
    ELSE hidden_triplets_scan_loop(hidden_triplets(st, Units[u]), u + 1)

hidden_triplets_scan(st) == hidden_triplets_scan_loop(st, 1)

\* The (square, value) step without its column test.
PointSqrRowOnly(b, sqr_n, poss) ==
    LET rows == {RowOf(i) : i \in {i \in SqrCells(sqr_n) : poss \in b[i].poss}}
    IN  IF Cardinality(rows) = 1
        THEN RmFromOthers(b, Units[(CHOOSE x \in rows : TRUE) + 1],
                          SqrCells(sqr_n), {poss})
        ELSE b

\* pointing_sets, one (line, value) step: line is a row or a column, cells
\* its cells; if the value's cells in the line lie in one square, the value is
\* removed from the rest of that square.
PointLine(b, cells, poss) ==
    LET sqrs == {SqrOf(i) : i \in {i \in cells : poss \in b[i].poss}}
    IN  IF Cardinality(sqrs) = 1
        THEN RmFromOthers(b, Units[(CHOOSE x \in sqrs : TRUE) + 19], cells, {poss})
        ELSE b

\* pointing_sets, one (square, value) step: first the row test, then the
\* column test, both on the rows and cols collected before either removal.
PointSqr(b, sqr_n, poss) ==
    LET holders == {i \in SqrCells(sqr_n) : poss \in b[i].poss}
        rows == {RowOf(i) : i \in holders}
        cols == {ColOf(i) : i \in holders}
        b1 == IF Cardinality(rows) = 1
              THEN RmFromOthers(b, Units[(CHOOSE x \in rows : TRUE) + 1],
                                SqrCells(sqr_n), {poss})
              ELSE b
    IN  IF Cardinality(cols) = 1
        THEN RmFromOthers(b1, Units[(CHOOSE x \in cols : TRUE) + 10],
                          SqrCells(sqr_n), {poss})
        ELSE b1

\* pointing_sets on unit u (0..8 rows, 9..17 columns, 18..26 squares), for
\* the values poss..9 in turn.
RECURSIVE pointing_unit(_, _, _)
pointing_unit(st, u, poss) ==
    IF poss > 9 \/ ~st.ok THEN st
    ELSE LET b1 == IF u < 9 THEN PointLine(st.b, RowCells(u), poss)
                   ELSE IF u < 18 THEN PointLine(st.b, ColCells(u - 9), poss)
                   ELSE PointSqr(st.b, u - 18, poss)
         IN  pointing_unit([st EXCEPT !.b = b1], u, poss + 1)

RECURSIVE pointing_sets_loop(_, _)
pointing_sets_loop(st, u) ==
    IF u > 26 \/ ~st.ok THEN st
    ELSE pointing_sets_loop(pointing_unit(st, u, 1), u + 1)

pointing_sets(st) == pointing_sets_loop(st, 0)

(***************************************************************************)
(* Backtrack. forward_fill and takeback_n_fill return the board, the       *)
(* history, the filled cell and how the call ended:                        *)
(*   "ok"     it returned (row_n, col_n);                                  *)
(*   "full"   forward_fill ran off the board looking for an empty cell:    *)
(*            "Cannot forward fill a full board!", sys.exit(1);            *)
(*   "dead"   forward_fill popped from an empty poss_left: an IndexError   *)
(*            raised outside its try block, which nothing catches;         *)
(*   "empty"  takeback_n_fill read history[-1] of an empty history:        *)
(*            "Takeback hit an empty history!", sys.exit(1).               *)
(***************************************************************************)

\* The sort without reverse=True: ascending.
SortedAsc(S) ==
    [k \in 1..Cardinality(S) |->
        CHOOSE x \in S : Cardinality({y \in S : y < x}) = k - 1]

\* poss_left.sort(reverse=True): the descending sequence of a set.
SortedDesc(S) ==
    [k \in 1..Cardinality(S) |->
        CHOOSE x \in S : Cardinality({y \in S : y > x}) = k - 1]

\* list.pop(): the list without its last element.
PopRest(l) == SubSeq(l, 1, Len(l) - 1)

\* forward_fill with the trial list taken from all nine digits instead of the
\* cell's 'poss'.
forward_fill_digits(b, h) ==
    LET start == IF Len(h) = 0 THEN 0 ELSE h[Len(h)].indx + 1
        Fill(indx) ==
            With(SortedDesc(Digits), LAMBDA poss_left :
                [b |-> set_cell_bt(b, indx \div 9, indx % 9,
                                   poss_left[Len(poss_left)]),
                 h |-> Append(h, [indx |-> indx,
                                  poss_left |-> PopRest(poss_left),
                                  ans |-> poss_left[Len(poss_left)]]),
                 cell |-> indx, out |-> "ok"])
    IN  IF \A i \in start..80 : b[i].ans # NoneAns
        THEN [b |-> b, h |-> h, cell |-> 0, out |-> "full"]
        ELSE With(CHOOSE i \in start..80 :
                      b[i].ans = NoneAns /\ \A j \in start..(i - 1) : b[j].ans # NoneAns,
                  Fill)

\* forward_fill with the history entry appended before the pop is tried.
forward_fill_push_first(b, h) ==
    LET start == IF Len(h) = 0 THEN 0 ELSE h[Len(h)].indx + 1
        Fill(indx) ==
            With(SortedDesc(b[indx].poss), LAMBDA poss_left :
                IF Len(poss_left) = 0
                THEN [b |-> b,
                      h |-> Append(h, [indx |-> indx, poss_left |-> <<>>, ans |-> NoneAns]),
                      cell |-> indx, out |-> "dead"]
                ELSE [b |-> set_cell_bt(b, indx \div 9, indx % 9,
                                        poss_left[Len(poss_left)]),
                      h |-> Append(h, [indx |-> indx,
                                       poss_left |-> PopRest(poss_left),
                                       ans |-> poss_left[Len(poss_left)]]),
                      cell |-> indx, out |-> "ok"])
    IN  IF \A i \in start..80 : b[i].ans # NoneAns
        THEN [b |-> b, h |-> h, cell |-> 0, out |-> "full"]
        ELSE With(CHOOSE i \in start..80 :
                      b[i].ans = NoneAns /\ \A j \in start..(i - 1) : b[j].ans # NoneAns,
                  Fill)

forward_fill(b, h) ==
    LET start == IF Len(h) = 0 THEN 0 ELSE h[Len(h)].indx + 1
        Fill(indx) ==
            With(SortedDesc(b[indx].poss), LAMBDA poss_left :
                IF Len(poss_left) = 0
                THEN [b |-> b, h |-> h, cell |-> indx, out |-> "dead"]
                ELSE [b |-> set_cell_bt(b, indx \div 9, indx % 9,
                                        poss_left[Len(poss_left)]),
                      h |-> Append(h, [indx |-> indx,
                                       poss_left |-> PopRest(poss_left),
                                       ans |-> poss_left[Len(poss_left)]]),
                      cell |-> indx, out |-> "ok"])
    IN  IF \A i \in start..80 : b[i].ans # NoneAns
        THEN [b |-> b, h |-> h, cell |-> 0, out |-> "full"]
        ELSE With(CHOOSE i \in start..80 :
                      b[i].ans = NoneAns /\ \A j \in start..(i - 1) : b[j].ans # NoneAns,
                  Fill)

\* The while loop without its set_cell_bt(.., None): entries are dropped, the
\* cells keep their answers.
takeback_loop_keep(b, h) ==
    LET Drop(top) ==
            [b |-> b,
             h |-> SubSeq(h, 1, top),
             cell |-> IF top = 0 THEN 0 ELSE h[top].indx,
             out |-> IF top = 0 THEN "empty" ELSE "ok"]
    IN  With(CHOOSE n \in 0..Len(h) :
                 /\ n = 0 \/ Len(h[n].poss_left) > 0
                 /\ \A m \in (n + 1)..Len(h) : Len(h[m].poss_left) = 0,
             Drop)

\* The while loop stopping at the last entry (len(history) > 1 as a second
\* condition): the bottom entry's cell is never cleared.
takeback_loop_stop_at_one(b, h) ==
    LET Drop(top) ==
            [b |-> [i \in Cells |->
                       IF \E n \in (top + 1)..Len(h) : n > 1 /\ h[n].indx = i
                       THEN [b[i] EXCEPT !.ans = NoneAns] ELSE b[i]],
             h |-> SubSeq(h, 1, top),
             cell |-> IF top = 0 THEN 0 ELSE h[top].indx,
             out |-> IF top = 0 THEN "empty" ELSE "ok"]
    IN  With(CHOOSE n \in 0..Len(h) :
                 /\ n = 0 \/ Len(h[n].poss_left) > 0
                 /\ \A m \in (n + 1)..Len(h) : Len(h[m].poss_left) = 0,
             Drop)

\* The while loop clearing by index range: every cell after the new top's
\* cell up to the old top's is cleared, on the history or not.
takeback_loop_clear_range(b, h) ==
    LET Drop(top) ==
            [b |-> [i \in Cells |->
                       IF /\ top < Len(h)
                          /\ i > (IF top = 0 THEN -1 ELSE h[top].indx)
                          /\ i <= h[Len(h)].indx
                       THEN [b[i] EXCEPT !.ans = NoneAns] ELSE b[i]],
             h |-> SubSeq(h, 1, top),
             cell |-> IF top = 0 THEN 0 ELSE h[top].indx,
             out |-> IF top = 0 THEN "empty" ELSE "ok"]
    IN  With(CHOOSE n \in 0..Len(h) :
                 /\ n = 0 \/ Len(h[n].poss_left) > 0
                 /\ \A m \in (n + 1)..Len(h) : Len(h[m].poss_left) = 0,
             Drop)

\* takeback_n_fill's while loop: clear and drop every top entry that has no
\* possibility left, down to the last entry that has one (top); if none has,
\* every entry is cleared and dropped and history[-1] raises IndexError.
takeback_loop(b, h) ==
    LET Drop(top) ==
            [b |-> [i \in Cells |->
                       IF \E n \in (top + 1)..Len(h) : h[n].indx = i
                       THEN [b[i] EXCEPT !.ans = NoneAns] ELSE b[i]],
             h |-> SubSeq(h, 1, top),
             cell |-> IF top = 0 THEN 0 ELSE h[top].indx,
             out |-> IF top = 0 THEN "empty" ELSE "ok"]
    IN  With(CHOOSE n \in 0..Len(h) :
                 /\ n = 0 \/ Len(h[n].poss_left) > 0
                 /\ \A m \in (n + 1)..Len(h) : Len(h[m].poss_left) = 0,
             Drop)

takeback_n_fill(b, h) ==
    LET Refill(r) ==
            IF r.out # "ok" THEN r
            ELSE LET top == r.h[Len(r.h)]
                     ans == top.poss_left[Len(top.poss_left)]
                 IN  [b |-> set_cell_bt(r.b, top.indx \div 9, top.indx % 9, ans),
                      h |-> [r.h EXCEPT ![Len(r.h)] =
                                [indx |-> top.indx,
                                 poss_left |-> PopRest(top.poss_left),
                                 ans |-> ans]],
                      cell |-> top.indx, out |-> "ok"]
    IN  With(takeback_loop(b, h), Refill)

(***************************************************************************)
(* Starting boards (row-major, 0 = blank)                                  *)
(***************************************************************************)

\* A complete valid grid.
Solved ==
    <<
    5, 3, 4, 6, 7, 8, 9, 1, 2,
    6, 7, 2, 1, 9, 5, 3, 4, 8,
    1, 9, 8, 3, 4, 2, 5, 6, 7,
    8, 5, 9, 7, 6, 1, 4, 2, 3,
    4, 2, 6, 8, 5, 3, 7, 9, 1,
    7, 1, 3, 9, 2, 4, 8, 5, 6,
    9, 6, 1, 5, 3, 7, 2, 8, 4,
    2, 8, 7, 4, 1, 9, 6, 3, 5,
    3, 4, 5, 2, 8, 6, 1, 7, 9 >>

\* Solved with the 5s and 4s of cells (6,3), (6,8), (7,3), (7,8) exchanged:
\* complete and valid too.
SolvedTwin ==
    [Solved EXCEPT ![58] = 4, ![63] = 5, ![67] = 5, ![72] = 4]

\* 53 blanks, one solution; solve() needs obvious and hidden pairs, obvious
\* triplets and pointing sets besides the singles, and completes it.
PuzzleAllRules ==
    <<
    0, 3, 4, 0, 0, 0, 9, 0, 2,
    6, 0, 0, 0, 9, 0, 0, 0, 8,
    0, 9, 0, 3, 4, 2, 0, 0, 0,
    8, 5, 0, 7, 0, 0, 0, 0, 0,
    0, 2, 0, 0, 0, 3, 0, 9, 0,
    0, 0, 0, 9, 2, 0, 0, 0, 6,
    9, 0, 0, 0, 0, 0, 0, 8, 4,
    0, 0, 0, 0, 0, 0, 0, 0, 0,
    0, 0, 0, 2, 0, 6, 1, 7, 9 >>

\* 16 blanks, one solution; no rule of the engine changes this board.
PuzzleStall ==
    <<
    5, 3, 0, 0, 7, 0, 9, 1, 2,
    6, 7, 2, 1, 9, 5, 3, 4, 8,
    1, 9, 0, 3, 0, 2, 5, 6, 7,
    8, 5, 9, 0, 0, 1, 0, 2, 3,
    0, 2, 6, 0, 5, 3, 0, 9, 1,
    0, 1, 3, 9, 2, 0, 0, 5, 6,
    9, 6, 1, 5, 3, 7, 2, 8, 4,
    2, 8, 7, 4, 1, 9, 6, 3, 5,
    3, 4, 5, 2, 0, 0, 1, 7, 9 >>

\* 43 blanks, one solution; the rules make progress and then stall.
PuzzleStallLate ==
    <<
    0, 0, 0, 6, 0, 8, 0, 1, 0,
    0, 0, 0, 0, 0, 0, 3, 0, 0,
    0, 0, 8, 0, 0, 0, 5, 0, 0,
    8, 5, 9, 0, 6, 1, 4, 2, 0,
    4, 0, 6, 8, 0, 3, 7, 9, 0,
    0, 1, 3, 0, 2, 4, 0, 0, 6,
    9, 0, 0, 5, 3, 7, 0, 8, 4,
    0, 0, 0, 4, 0, 0, 0, 3, 5,
    3, 4, 5, 0, 8, 6, 0, 0, 0 >>

\* No solution and no repeated given: two cells of row 0 are left with the
\* same single possibility.
PuzzleExhaust ==
    <<
    5, 3, 4, 6, 7, 8, 9, 0, 0,
    6, 7, 2, 1, 9, 5, 3, 4, 8,
    1, 9, 8, 3, 4, 2, 5, 6, 7,
    8, 5, 0, 7, 6, 1, 4, 0, 3,
    4, 2, 6, 8, 5, 3, 7, 1, 0,
    7, 1, 3, 9, 2, 4, 8, 5, 6,
    9, 6, 1, 5, 3, 7, 2, 8, 4,
    2, 8, 7, 0, 1, 9, 6, 3, 5,
    3, 4, 5, 2, 8, 6, 1, 7, 9 >>

\* No solution and no repeated given: an empty cell has no possibility left.
PuzzleDead ==
    <<
    5, 3, 4, 6, 7, 8, 9, 1, 2,
    6, 7, 2, 1, 9, 5, 3, 4, 8,
    1, 9, 8, 3, 4, 2, 5, 6, 0,
    8, 5, 9, 7, 6, 1, 4, 2, 3,
    4, 2, 0, 8, 0, 0, 7, 9, 1,
    7, 1, 3, 9, 2, 4, 8, 5, 6,
    9, 6, 0, 5, 1, 7, 2, 8, 4,
    2, 8, 7, 4, 0, 9, 0, 3, 5,
    3, 4, 5, 2, 8, 6, 1, 7, 9 >>

\* No solution and no repeated given: (0,7), (0,8) and (3,7) all have the
\* single possibility 2 ((1,3) has none).
PuzzleSameSingle ==
    <<
    5, 3, 4, 6, 7, 8, 9, 0, 0,
    6, 7, 2, 0, 9, 5, 3, 1, 8,
    1, 9, 8, 3, 4, 2, 5, 6, 7,
    8, 5, 9, 7, 6, 1, 4, 0, 3,
    4, 2, 6, 8, 5, 3, 7, 9, 1,
    7, 1, 3, 9, 2, 4, 8, 5, 6,
    9, 6, 1, 5, 3, 7, 2, 8, 4,
    2, 8, 7, 4, 1, 9, 6, 3, 5,
    3, 4, 5, 2, 8, 6, 1, 7, 9 >>

\* 6 blanks, one solution: row 8 has 4 as a possibility in (8,1) and (8,2)
\* only, both in square 6, and column 1 has it in (8,1) only.
PuzzlePointing ==
    <<
    5, 3, 0, 6, 7, 8, 9, 0, 2,
    6, 7, 2, 1, 9, 5, 3, 4, 8,
    1, 9, 8, 3, 4, 2, 5, 6, 7,
    8, 5, 9, 7, 6, 1, 4, 2, 3,
    4, 2, 6, 8, 5, 3, 7, 9, 1,
    0, 1, 3, 9, 2, 4, 8, 5, 0,
    9, 6, 1, 5, 3, 7, 2, 8, 4,
    2, 8, 7, 4, 1, 9, 6, 3, 5,
    3, 0, 0, 2, 8, 6, 1, 7, 9 >>

\* Repeated givens in units that have no empty cell.
PuzzleHiddenRepeat ==
    <<
    5, 3, 4, 6, 7, 8, 9, 1, 2,
    6, 7, 2, 1, 9, 5, 3, 4, 8,
    1, 9, 8, 3, 4, 7, 5, 6, 7,
    0, 5, 9, 7, 6, 1, 4, 2, 3,
    4, 2, 6, 8, 5, 3, 7, 9, 1,
    7, 1, 3, 9, 2, 4, 8, 0, 6,
    9, 6, 1, 5, 3, 7, 2, 8, 4,
    2, 8, 7, 4, 1, 9, 6, 3, 5,
    3, 4, 5, 2, 8, 6, 1, 7, 9 >>

\* 22 blanks, one solution: every rule but hidden_triplets_scan changes some
\* board reachable from it, and 26 boards are reachable by the rules.
PuzzleRulesA ==
    <<5, 3, 0, 0, 7, 8, 9, 0, 0,
      0, 7, 0, 0, 9, 0, 3, 0, 8,
      0, 9, 8, 3, 4, 0, 0, 6, 7,
      0, 5, 9, 7, 6, 0, 0, 2, 0,
      4, 2, 6, 8, 5, 3, 0, 9, 0,
      7, 1, 3, 9, 2, 4, 0, 5, 6,
      9, 0, 1, 5, 3, 0, 2, 8, 4,
      2, 8, 7, 4, 1, 0, 6, 3, 5,
      3, 4, 5, 2, 8, 6, 1, 7, 9>>

\* 18 blanks, one solution, 11 boards reachable by the rules.
PuzzleRulesB ==
    <<5, 3, 4, 0, 7, 8, 9, 1, 2,
      6, 7, 2, 0, 9, 5, 0, 4, 0,
      1, 9, 8, 3, 4, 2, 5, 6, 0,
      8, 5, 9, 7, 6, 1, 4, 2, 3,
      4, 2, 0, 8, 5, 3, 7, 9, 1,
      7, 1, 3, 9, 2, 0, 0, 5, 6,
      9, 6, 0, 5, 3, 7, 2, 0, 4,
      2, 8, 7, 0, 1, 0, 0, 0, 5,
      3, 4, 5, 0, 8, 0, 0, 7, 0>>

EmptyGrid == Table([k \in 1..81 |-> 0])

\* Two complete grids whose first row is 1..9.
SolvedRow ==
    <<
    1, 2, 3, 4, 5, 6, 7, 8, 9,
    4, 5, 6, 7, 8, 9, 1, 2, 3,
    7, 8, 9, 1, 2, 3, 4, 5, 6,
    2, 3, 4, 5, 6, 7, 8, 9, 1,
    5, 6, 7, 8, 9, 1, 2, 3, 4,
    8, 9, 1, 2, 3, 4, 5, 6, 7,
    3, 4, 5, 6, 7, 8, 9, 1, 2,
    6, 7, 8, 9, 1, 2, 3, 4, 5,
    9, 1, 2, 3, 4, 5, 6, 7, 8 >>

SolvedRowTwin ==
    <<
    1, 2, 3, 4, 5, 6, 7, 8, 9,
    7, 8, 9, 1, 2, 3, 4, 5, 6,
    4, 5, 6, 7, 8, 9, 1, 2, 3,
    2, 3, 4, 5, 6, 7, 8, 9, 1,
    5, 6, 7, 8, 9, 1, 2, 3, 4,
    8, 9, 1, 2, 3, 4, 5, 6, 7,
    3, 4, 5, 6, 7, 8, 9, 1, 2,
    6, 7, 8, 9, 1, 2, 3, 4, 5,
    9, 1, 2, 3, 4, 5, 6, 7, 8 >>

\* 7 blanks, two solutions: after set_puzzle cells (0,0) and (0,1) have the
\* possibilities {4,8} and cell (0,2) has {2,4,8}.
PuzzlePairRow ==
    <<
    0, 0, 0, 6, 1, 5, 9, 3, 7,
    1, 7, 5, 3, 2, 9, 4, 8, 6,
    3, 6, 9, 4, 7, 8, 2, 1, 5,
    0, 0, 3, 2, 9, 6, 5, 7, 1,
    7, 9, 1, 8, 5, 3, 6, 4, 2,
    2, 5, 6, 1, 4, 7, 3, 9, 8,
    9, 1, 0, 5, 8, 2, 7, 6, 3,
    5, 3, 7, 9, 6, 1, 8, 2, 4,
    6, 2, 0, 7, 3, 4, 1, 5, 9 >>

\* 10 blanks, one solution: after set_puzzle cells (5,3) and (5,4) both have
\* {2,9}, and cells (6,3) and (8,3) of column 3 both have {2,5}.
PuzzlePairBroken ==
    <<
    5, 3, 4, 6, 7, 8, 9, 1, 2,
    6, 7, 2, 1, 0, 0, 3, 4, 8,
    1, 9, 8, 3, 4, 0, 5, 6, 7,
    8, 5, 9, 7, 6, 1, 4, 2, 3,
    4, 2, 6, 8, 5, 3, 7, 9, 1,
    7, 1, 3, 0, 0, 4, 8, 5, 6,
    9, 6, 1, 0, 3, 7, 0, 8, 4,
    2, 8, 7, 4, 1, 9, 0, 3, 5,
    3, 4, 0, 0, 8, 6, 1, 7, 9 >>

\* One row given as 1..9, every other cell blank.
PuzzleRowGiven == Table([k \in 1..81 |-> IF k <= 9 THEN k ELSE 0])

\* The cells a variant of Solved may leave blank, in the order the bound
\* NBlank admits them.
ProbeCells == <<57, 71, 62, 66, 0, 40, 12, 80>>

NBlank == 2

\* The cells a variant may overwrite with any digit.
OverCells == {1, 58}

Blanked(g, m) == Table([k \in 1..81 |-> IF (k - 1) \in m THEN 0 ELSE g[k]])

\* Solved with any subset of the first NBlank probe cells blank and at most
\* one of OverCells given any digit (its own digit: no change).
Variants ==
    {[Blanked(Solved, m) EXCEPT ![i + 1] = v] :
        m \in SUBSET {ProbeCells[k] : k \in 1..NBlank}, i \in OverCells, v \in Digits}

\* Solved without the eight probe cells. (6,3), (7,8), (6,8), (7,3) hold
\* 5, 5, 4, 4, so Solved and SolvedTwin both complete it; the other four
\* cells have one candidate each.
PuzzleTwin == Blanked(Solved, {57, 71, 62, 66, 0, 40, 12, 80})

BoardGrids == {Solved, EmptyGrid, PuzzleStall, PuzzleHiddenRepeat}

\* A flat grid as the list of nine rows set_puzzle is handed.
Rows(g) == [r \in 1..N |-> [c \in 1..N |-> g[(r - 1) * N + c]]]

\* Lists of rows that are not 9 by 9: eight rows, ten rows, a first row of
\* eight entries, a last row of eight entries, a row of ten entries.
ShapeGrids ==
    {SubSeq(Rows(Solved), 1, 8),
     Append(Rows(Solved), Rows(Solved)[1]),
     [Rows(Solved) EXCEPT ![1] = SubSeq(@, 1, 8)],
     [Rows(Solved) EXCEPT ![9] = SubSeq(@, 1, 8)],
     [Rows(PuzzleStall) EXCEPT ![5] = Append(@, 5)]}
RuleGrids == Variants \cup {PuzzleRulesA, PuzzleRulesB, PuzzleStall, PuzzleTwin, PuzzleExhaust,
                           PuzzleDead, PuzzleRowGiven, PuzzlePairRow, PuzzlePairBroken,
                           PuzzleSameSingle, PuzzlePointing}
SolveGrids == Variants \cup {PuzzleAllRules, PuzzleRulesA, PuzzleStall, PuzzleStallLate,
                            PuzzleTwin, PuzzleExhaust, PuzzleDead, PuzzleHiddenRepeat}
BTGrids == Variants \cup {EmptyGrid, PuzzleStall, PuzzleTwin, PuzzleExhaust, PuzzleDead,
                         PuzzleHiddenRepeat}

\* set_cell arguments the caller of the board spec may pass.
CallCells == {0, 40, 80}
MaxVal == 10
MaxCalls == 2

(***************************************************************************)
(* What "a solution of the givens" means (not code: the yardstick the      *)
(* properties are measured with).                                          *)
(***************************************************************************)

Peers ==
    Table([i \in Cells |->
        {j \in Cells : j # i /\ (RowOf(j) = RowOf(i) \/ ColOf(j) = ColOf(i)
                                  \/ SqrOf(j) = SqrOf(i))}])

\* No digit is given twice in a unit.
NoRepeatedGiven(g) ==
    \A i \in Cells : g[i + 1] = 0 \/ \A j \in Peers[i] : g[j + 1] # g[i + 1]

\* The digits no peer of cell k holds in g.
Free(g, k) == {v \in Digits : \A j \in Peers[k] : g[j + 1] # v}

\* The first blank cell of g at or after k (81 if none).
NextBlank(g, k) ==
    LET E == {i \in Cells : i >= k /\ g[i + 1] = 0}
    IN  IF E = {} THEN 81 ELSE CHOOSE i \in E : \A j \in E : i <= j

\* g, whose cells before k are filled without repeats, has a completion.
RECURSIVE Solvable(_, _)
Solvable(g, k) ==
    LET n == NextBlank(g, k)
    IN  n > 80 \/ \E v \in Free(g, n) : Solvable([g EXCEPT ![n + 1] = v], n + 1)

\* g has two completions or more.
RECURSIVE TwoFrom(_, _)
TwoFrom(g, k) ==
    LET n == NextBlank(g, k)
    IN  IF n > 80 THEN FALSE
        ELSE LET vs == {v \in Free(g, n) : Solvable([g EXCEPT ![n + 1] = v], n + 1)}
             IN  \/ Cardinality(vs) >= 2
                 \/ vs # {} /\ TwoFrom([g EXCEPT ![n + 1] = CHOOSE v \in vs : TRUE], n + 1)

\* s is a complete valid grid that keeps every given of g.
Completes(s, g) ==
    /\ \A k \in 1..81 : s[k] \in Digits /\ (g[k] = 0 \/ g[k] = s[k])
    /\ NoRepeatedGiven(s)

\* 0, 1, or 2 for "two or more": two known completions settle it at once,
\* the search settles the rest.
NumSolutions(g) ==
    IF ~(\A k \in 1..81 : g[k] \in 0..9) \/ ~NoRepeatedGiven(g) THEN 0
    ELSE IF Completes(Solved, g) /\ Completes(SolvedTwin, g) THEN 2
    ELSE IF Completes(SolvedRow, g) /\ Completes(SolvedRowTwin, g) THEN 2
    ELSE IF ~Solvable(g, 0) THEN 0
    ELSE IF TwoFrom(g, 0) THEN 2 ELSE 1

\* Every row, column and square of the board's answers holds 1..9 once.
IsLatin(b) ==
    \A u \in 1..27 : {b[Units[u][k]].ans : k \in 1..9} = Digits

\* The board's answers in row-major order, 0 where unset.
Answers(b) == Table([k \in 1..81 |-> b[k - 1].ans])

(***************************************************************************)
(* State machine                                                           *)
(***************************************************************************)

\* The record of a call: op and arguments, what set_cell logged, whether an
\* exception reached the caller, the value track_change returned (changed),
\* whether the call before it was the same op (again) and what that one
\* returned (beforeChanged).
Call(op, row, col, val, logged, raised, changed) ==
    [op |-> op, row |-> row, col |-> col, val |-> val, logged |-> logged,
     raised |-> raised, changed |-> changed,
     again |-> (last.op = op), beforeChanged |-> last.changed]

\* SudokuBoard(): main.py line 39.
Init ==
    /\ board = BlankBoard
    /\ pc = "new"
    /\ given = EmptyGrid
    /\ last = [op |-> "init", row |-> 0, col |-> 0, val |-> 0, logged |-> "none",
               raised |-> FALSE, changed |-> FALSE,
               again |-> FALSE, beforeChanged |-> FALSE]
    /\ old = BlankBoard
    /\ history = <<>>
    /\ last_indx = 0
    /\ cur = 0
    /\ conflict = FALSE
    /\ calls = 0
    /\ stage = 0
    /\ nsol = 2
    /\ quiet = TRUE

\* board.set_puzzle(g)
SetPuzzle(g) ==
    /\ board' = set_puzzle(g)
    /\ given' = g
    /\ nsol' = NumSolutions(g)
    /\ old' = board
    /\ last' = Call("set_puzzle", 0, 0, 0, "none", FALSE, FALSE)
    /\ pc' = "ready"
    /\ calls' = calls + 1
    /\ UNCHANGED <<quiet, history, last_indx, cur, conflict, stage>>

\* board.set_puzzle(sb) with a list of rows that is not 9 by 9 (val 1 in the
\* call's record marks it); given is what the loops read of it.
SetPuzzleRows(sb) ==
    /\ \E r \in {set_puzzle_rows(sb)} :
           /\ board' = r.b
           /\ last' = Call("set_puzzle", 0, 0, 1, r.logged, r.raised, FALSE)
    /\ given' = ReadPart(sb)
    /\ nsol' = NumSolutions(ReadPart(sb))
    /\ old' = board
    /\ pc' = "ready"
    /\ calls' = calls + 1
    /\ UNCHANGED <<quiet, history, last_indx, cur, conflict, stage>>

\* board.set_cell(row_n, col_n, ans)
SetCell(row_n, col_n, ans) ==
    /\ pc \in {"new", "ready"}
    /\ calls < MaxCalls
    /\ \E r \in {set_cell(board, row_n, col_n, ans)} :
           /\ board' = r.b
           /\ last' = Call("set_cell", row_n, col_n, ans, r.logged, r.raised, FALSE)
    /\ old' = board
    /\ calls' = calls + 1
    /\ UNCHANGED <<quiet, pc, given, nsol, history, last_indx, cur, conflict, stage>>

\* track_change comparing the 'ans' column only.
track_change_ans(b0, b1) == \E i \in Cells : b0[i].ans # b1[i].ans

\* track_change with len(diff_indices) >= 0 as the return value.
track_change_always(b0, b1) == \A i \in Cells : b0[i] # b1[i] \/ b0[i] = b1[i]

\* track_change: the wrapped rule's return value, len(diff_indices) > 0.
track_change(b0, b1) == \E i \in Cells : b0[i] # b1[i]

RuleNames ==
    {"obvious_singles", "hidden_singles_scan", "obvious_pairs_scan",
     "hidden_pairs_scan", "obvious_triplets_scan", "hidden_triplets_scan",
     "pointing_sets"}

ApplyRule(name, st) ==
    CASE name = "obvious_singles" -> obvious_singles(st)
      [] name = "hidden_singles_scan" -> hidden_singles_scan(st)
      [] name = "obvious_pairs_scan" -> obvious_pairs_scan(st)
      [] name = "hidden_pairs_scan" -> hidden_pairs_scan(st)
      [] name = "obvious_triplets_scan" -> obvious_triplets_scan(st)
      [] name = "hidden_triplets_scan" -> hidden_triplets_scan(st)
      [] name = "pointing_sets" -> pointing_sets(st)

\* A caller invokes one rule of a SudokuStrats built on the board. An
\* IndexError leaves the rule (and the wrapper) without a return value.
CallRule(name) ==
    /\ pc = "ready"
    /\ \E st \in {ApplyRule(name, [b |-> board, ok |-> TRUE, conf |-> conflict])} :
           /\ board' = st.b
           /\ conflict' = st.conf
           /\ pc' = IF st.ok THEN "ready" ELSE "crashed"
           /\ last' = Call(name, 0, 0, 0, "none", ~st.ok,
                           st.ok /\ track_change(board, st.b))
    /\ old' = board
    /\ UNCHANGED <<quiet, given, nsol, history, last_indx, cur, calls, stage>>

(* SudokuStrats.solve: pc is the call about to be made,                    *)
(*   "os" obvious_singles, "hs" hidden_singles_scan (inside apply_singles  *)
(*   number stage), "chk" puzzle_completed, "op"/"hp" the pair scans,      *)
(*   "ot"/"ht" the triplet scans, "ps" pointing_sets, "loop" the end of    *)
(*   the while loop's body;                                                *)
(*   "done" solve has returned, "crashed" an exception has left it.        *)

StratSolveStart ==
    /\ pc = "ready"
    /\ pc' = "os"
    /\ stage' = 1
    /\ old' = board
    /\ last' = Call("solve", 0, 0, 0, "none", FALSE, FALSE)
    /\ quiet' = TRUE
    /\ UNCHANGED <<board, given, nsol, history, last_indx, cur, conflict, calls>>

\* One rule call made by solve / apply_singles: pcThen if the call reported
\* a change, pcElse if not.
SolveStep(at, name, pcThen, pcElse, stageNext) ==
    /\ pc = at
    /\ \E st \in {ApplyRule(name, [b |-> board, ok |-> TRUE, conf |-> conflict])} :
       \E changed \in {track_change(board, st.b)} :
           /\ board' = st.b
           /\ conflict' = st.conf
           /\ pc' = IF ~st.ok THEN "crashed" ELSE IF changed THEN pcThen ELSE pcElse
           /\ stage' = IF st.ok THEN stageNext ELSE stage
           /\ last' = Call(name, 0, 0, 0, "none", ~st.ok, st.ok /\ changed)
           /\ quiet' = (quiet /\ ~changed)
    /\ old' = board
    /\ UNCHANGED <<given, nsol, history, last_indx, cur, calls>>

\* apply_singles: while self.obvious_singles() or self.hidden_singles_scan()
ObviousSingles == SolveStep("os", "obvious_singles", "os", "hs", stage)
HiddenSinglesScan == SolveStep("hs", "hidden_singles_scan", "os", "chk", stage)

\* if self.board.puzzle_completed(): break
PuzzleCompleted ==
    /\ pc = "chk"
    /\ pc' = IF puzzle_completed(board) THEN "done"
             ELSE IF stage = 1 THEN "op"
             ELSE IF stage = 2 THEN "ot"
             ELSE "ps"
    /\ old' = board
    /\ last' = Call("puzzle_completed", 0, 0, 0, "none", FALSE, FALSE)
    /\ UNCHANGED <<quiet, board, given, nsol, history, last_indx, cur, conflict, calls, stage>>

\* The scans' return values are not read by solve.
ObviousPairsScan == SolveStep("op", "obvious_pairs_scan", "hp", "hp", stage)
HiddenPairsScan == SolveStep("hp", "hidden_pairs_scan", "os", "os", 2)
ObviousTripletsScan == SolveStep("ot", "obvious_triplets_scan", "ht", "ht", stage)
HiddenTripletsScan == SolveStep("ht", "hidden_triplets_scan", "os", "os", 3)
PointingSets == SolveStep("ps", "pointing_sets", "loop", "loop", stage)

\* while True: the body has run to its end and is entered again.
LoopAgain ==
    /\ pc = "loop"
    /\ pc' = "os"
    /\ stage' = 1
    /\ quiet' = TRUE
    /\ UNCHANGED <<board, given, nsol, last, old, history, last_indx, cur, conflict,
                   calls>>

(* Backtrack.solve: pc is the loop solve is in,                            *)
(*   "bt_outer" about to test "while not puzzle_completed()",              *)
(*   "bt_ff"    about to test the forward-fill loop's condition,           *)
(*   "bt_tb"    about to test the takeback loop's condition;               *)
(*   "bt_done" solve has returned; "bt_noblank", "bt_full", "bt_dead",     *)
(*   "bt_exhausted" are the four ways it ends without returning.           *)

\* A = df.loc[df['ans'].isna()]; last_indx = A.index[-1]: an IndexError that
\* nothing catches when no cell is empty.
BTSolveStart ==
    /\ pc = "ready"
    /\ LET A == {i \in Cells : board[i].ans = NoneAns}
       IN  IF A = {}
           THEN pc' = "bt_noblank" /\ last_indx' = last_indx
           ELSE /\ pc' = "bt_outer"
                /\ last_indx' = CHOOSE i \in A : \A j \in A : i >= j
    /\ history' = <<>>
    /\ old' = board
    /\ last' = Call("bt_solve", 0, 0, 0, "none", FALSE, FALSE)
    /\ UNCHANGED <<quiet, board, given, nsol, cur, conflict, calls, stage>>

\* The inner forward-fill loop's condition.
FFCond ==
    ~check4errors(board, RowOf(cur), ColOf(cur)) /\ board[last_indx].ans = NoneAns

BTForwardFill ==
    /\ \/ pc = "bt_outer" /\ ~puzzle_completed(board)
       \/ pc = "bt_ff" /\ FFCond
    /\ \E r \in {forward_fill(board, history)} :
           /\ board' = r.b
           /\ history' = r.h
           /\ cur' = IF r.out = "ok" THEN r.cell ELSE cur
           /\ pc' = CASE r.out = "ok" -> "bt_ff"
                      [] r.out = "full" -> "bt_full"
                      [] r.out = "dead" -> "bt_dead"
           /\ last' = Call("forward_fill", RowOf(r.cell), ColOf(r.cell), 0, r.out,
                           r.out # "ok", FALSE)
    /\ old' = board
    /\ UNCHANGED <<quiet, given, nsol, last_indx, conflict, calls, stage>>

BTTakebackNFill ==
    /\ \/ pc = "bt_ff" /\ ~FFCond
       \/ pc = "bt_tb"
    /\ check4errors(board, RowOf(cur), ColOf(cur))
    /\ \E r \in {takeback_n_fill(board, history)} :
           /\ board' = r.b
           /\ history' = r.h
           /\ cur' = IF r.out = "ok" THEN r.cell ELSE cur
           /\ pc' = IF r.out = "ok" THEN "bt_tb" ELSE "bt_exhausted"
           /\ last' = Call("takeback_n_fill", RowOf(r.cell), ColOf(r.cell), 0, r.out,
                           r.out # "ok", FALSE)
    /\ old' = board
    /\ UNCHANGED <<quiet, given, nsol, last_indx, conflict, calls, stage>>

\* Both inner loops are over: back to the outer loop's test.
BTLoopBack ==
    /\ \/ pc = "bt_ff" /\ ~FFCond
       \/ pc = "bt_tb"
    /\ ~check4errors(board, RowOf(cur), ColOf(cur))
    /\ pc' = "bt_outer"
    /\ UNCHANGED <<quiet, board, given, nsol, last, old, history, last_indx, cur, conflict,
                   calls, stage>>

\* puzzle_completed() is true: the outer loop ends and solve returns.
BTReturn ==
    /\ pc = "bt_outer"
    /\ puzzle_completed(board)
    /\ pc' = "bt_done"
    /\ UNCHANGED <<quiet, board, given, nsol, last, old, history, last_indx, cur, conflict,
                   calls, stage>>

(***************************************************************************)
(* Specifications                                                          *)
(***************************************************************************)

\* The board alone: a caller making up to MaxCalls calls.
BoardSetPuzzle ==
    \E g \in BoardGrids :
        pc \in {"new", "ready"} /\ calls < MaxCalls /\ SetPuzzle(g)

BoardSetCell ==
    \E i \in CallCells : \E v \in 0..MaxVal : SetCell(RowOf(i), ColOf(i), v)

BoardSetPuzzleRows ==
    \E sb \in ShapeGrids :
        pc \in {"new", "ready"} /\ calls < MaxCalls /\ SetPuzzleRows(sb)

Next == BoardSetPuzzle \/ BoardSetPuzzleRows \/ BoardSetCell

Spec == Init /\ [][Next]_vars

\* The strategy rules, called in any order on a populated board.
RulesSetPuzzle == \E g \in RuleGrids : pc = "new" /\ SetPuzzle(g)

RulesCall == \E name \in RuleNames : CallRule(name)

NextRules == RulesSetPuzzle \/ RulesCall

SpecRules == Init /\ [][NextRules]_vars

\* SudokuStrats.solve on a populated board.
SolveSetPuzzle == \E g \in SolveGrids : pc = "new" /\ SetPuzzle(g)

NextSolve ==
    \/ SolveSetPuzzle
    \/ StratSolveStart
    \/ ObviousSingles
    \/ HiddenSinglesScan
    \/ PuzzleCompleted
    \/ ObviousPairsScan
    \/ HiddenPairsScan
    \/ ObviousTripletsScan
    \/ HiddenTripletsScan
    \/ PointingSets
    \/ LoopAgain

SpecSolve == Init /\ [][NextSolve]_vars

\* Backtrack.solve on a populated board.
BTSetPuzzle == \E g \in BTGrids : pc = "new" /\ SetPuzzle(g)

\* A step of Backtrack.solve.
BTStep ==
    \/ BTSolveStart
    \/ BTForwardFill
    \/ BTTakebackNFill
    \/ BTLoopBack
    \/ BTReturn

NextBT == BTSetPuzzle \/ BTStep

SpecBT == Init /\ [][NextBT]_vars

\* solve runs in one thread to its end: a step it can take is taken.
FairBT == SpecBT /\ WF_vars(BTStep)

\* Either engine on a populated board.
NextEngines == NextSolve \/ NextBT

SpecEngines == Init /\ [][NextEngines]_vars

(***************************************************************************)
(* Backtrack.solve: C1, C2                                                 *)
(***************************************************************************)

\* The ways Backtrack.solve ends without returning.
BTFailed == {"bt_noblank", "bt_full", "bt_dead", "bt_exhausted"}

\* The starting grid has a blank cell.
HasBlank(g) == \E k \in 1..81 : g[k] = 0

\* C1: for every starting grid with at least one solution Backtrack.solve
\* terminates, and then puzzle_completed() is true, the board is a complete
\* valid grid that keeps the givens; solve returns normally when the grid has
\* a blank cell, and ends at once on the IndexError of A.index[-1] when it has
\* none (the board is then the complete grid it was given).
C1_BTSolvesSolvable ==
    (pc = "ready" /\ nsol >= 1)
        ~> /\ pc = IF HasBlank(given) THEN "bt_done" ELSE "bt_noblank"
           /\ puzzle_completed(board)
           /\ IsLatin(board)
           /\ Completes(Answers(board), given)

\* C1 witness: solve has returned on the empty grid with all 81 cells on the
\* history and a valid complete board.
C1_Witness ==
    /\ pc = "bt_done"
    /\ given = EmptyGrid
    /\ Len(history) = 81
    /\ IsLatin(board)

\* C2 as stated: on a grid with no solution solve always ends with
\* takeback_n_fill finding the history empty, and through no other failure.
C2_OnlyExhaustedSearch ==
    (nsol = 0 /\ pc \in BTFailed \cup {"bt_done"}) => pc = "bt_exhausted"

\* C2 as amended: on a grid with no solution solve never returns normally
\* and always ends in one of its fatal failures: the empty history of
\* takeback_n_fill, the empty trial list or the full board of forward_fill,
\* or the IndexError of A.index[-1] on a grid without a blank cell.
C2_UnsolvableEndsInFailure ==
    /\ [](nsol = 0 => pc # "bt_done")
    /\ ((pc = "ready" /\ nsol = 0) ~> (pc \in BTFailed))

\* C2 witness: on a grid with no solution and no repeated given the search
\* tried values and takeback_n_fill emptied the history.
C2_Witness ==
    /\ pc = "bt_exhausted"
    /\ nsol = 0
    /\ NoRepeatedGiven(given)
    /\ history = <<>>
    /\ last.op = "takeback_n_fill"

(***************************************************************************)
(* SudokuStrats.solve: C3, C4, C10                                         *)
(***************************************************************************)

\* C3: whenever SudokuStrats.solve has returned, every cell has an answer
\* and every row, column and box holds each of 1..9 once (so none twice).
C3_NoFalseCompletion ==
    pc = "done" => (\A i \in Cells : board[i].ans \in Digits) /\ IsLatin(board)

\* C3 witness: solve has returned on the 53-blank puzzle, which it completes
\* only after its pair, triplet and pointing rules have run.
C3_Witness ==
    /\ pc = "done"
    /\ given = PuzzleAllRules
    /\ IsLatin(board)
    /\ Completes(Answers(board), given)

\* C4 as stated, in the form a finite run refutes: on a valid grid with one
\* solution, a pass of solve's while loop in which no rule changed the board
\* is the last one; solve stops there instead of starting another pass.
C4_IdlePassStops ==
    [][(pc = "loop" /\ quiet /\ nsol = 1) => pc' # "os"]_vars

\* C10 as stated: once make_entry has committed a value that leaves a
\* duplicate in the cell's row, column or box, the solve attempt has stopped:
\* solve takes no further step.
C10_ContradictionIsFatal ==
    [][(conflict /\ pc \in {"os", "hs", "chk", "op", "hp", "ot", "ht", "ps", "loop"})
          => UNCHANGED vars]_vars

(***************************************************************************)
(* The strategy rules: C5, C6                                              *)
(***************************************************************************)

\* C5: on a board populated from givens that a solution S completes, after
\* any sequence of rule calls every committed answer is S's value for its
\* cell and every unanswered cell's candidate set still holds S's value;
\* checked for both complete grids the starting boards are cut from.
C5_RulesSound ==
    \A S \in {Solved, SolvedTwin} :
        Completes(S, given) =>
            \A i \in Cells :
                IF board[i].ans # NoneAns THEN board[i].ans = S[i + 1]
                ELSE S[i + 1] \in board[i].poss

\* C5 witness: on givens with two solutions a rule call has just removed
\* candidates, and some cell that was blank in the givens is still open.
C5_Witness ==
    /\ given = PuzzleTwin
    /\ last.op \in RuleNames
    /\ last.changed
    /\ \E i \in Cells : board[i].ans = NoneAns /\ Cardinality(board[i].poss) = 2

C7_SetPuzzleRoundTrip ==
    last.op = "set_puzzle" =>
        [k \in 1..81 |-> IntOf(save_puzzle(board)[k])] = given

\* C7 witness: set_puzzle has replaced a board that held other answers, with
\* a grid that has blanks and givens.
C7_Witness ==
    /\ last.op = "set_puzzle"
    /\ given = PuzzleStall
    /\ \E i \in Cells : old[i].ans # NoneAns /\ old[i].ans # board[i].ans
    /\ \E i \in Cells : old[i].ans # NoneAns /\ board[i].ans = NoneAns

\* C8: set_cell(row, col, v) with v in 1..9 sets the cell's answer to v,
\* empties its candidate set, removes v from the candidate set of every cell
\* of its row, column and box, changes no other answer and removes nothing
\* else from any other cell.
C8_SetCellEffect ==
    (last.op = "set_cell" /\ last.val \in Digits) =>
        LET c == last.row * N + last.col
        IN  /\ board[c].ans = last.val
            /\ board[c].poss = {}
            /\ \A i \in Cells \ {c} :
                   /\ board[i].ans = old[i].ans
                   /\ board[i].poss = IF i \in Peers[c] THEN old[i].poss \ {last.val}
                                      ELSE old[i].poss

\* C8 witness: set_cell has put a value in a cell and thereby taken that
\* candidate from cells of its row, of its column and of its box.
C8_Witness ==
    /\ last.op = "set_cell"
    /\ last.val \in Digits
    /\ LET c == last.row * N + last.col
           Lost == {i \in Cells \ {c} : last.val \in old[i].poss \ board[i].poss}
       IN  /\ \E i \in Lost : RowOf(i) = last.row /\ SqrOf(i) # SqrOf(c)
           /\ \E i \in Lost : ColOf(i) = last.col /\ SqrOf(i) # SqrOf(c)
           /\ \E i \in Lost : RowOf(i) # last.row /\ ColOf(i) # last.col

\* C9 as stated: set_cell(row, col, v) with v outside 1..9 fails with an
\* error that reaches the caller, and leaves the board as it was.
C9_InvalidValueRaised ==
    (last.op = "set_cell" /\ last.val \notin Digits) =>
        (last.raised /\ board = old)

(***************************************************************************)
(* puzzle_completed: C11                                                   *)
(***************************************************************************)

\* Every row, every column and every box holds each digit exactly once.
EachDigitOnce(b) ==
    \A u \in 1..27 : \A d \in Digits :
        Cardinality({i \in CellsOf[u] : b[i].ans = d}) = 1

\* C11: in every state reached by set_puzzle followed by either engine,
\* puzzle_completed() is true if and only if every row, every column and
\* every box contains each digit 1..9 exactly once.
C11_CompletedIffEachDigitOnce ==
    pc # "new" => (puzzle_completed(board) <=> EachDigitOnce(board))

\* C11 witness: the backtracking engine has filled the last empty cell with a
\* value that repeats in one of its units: every cell has an answer, and
\* puzzle_completed() is false.
C11_Witness ==
    /\ pc \in {"bt_ff", "bt_tb"}
    /\ NoRepeatedGiven(given)
    /\ \A i \in Cells : board[i].ans # NoneAns
    /\ ~puzzle_completed(board)
    /\ ~EachDigitOnce(board)

(***************************************************************************)
(* Backtrack: C12                                                          *)
(***************************************************************************)

\* C12: from the start of Backtrack.solve to its end, across every
\* forward_fill and takeback_n_fill, no cell's candidate set changes.
C12_CandidatesFrozen ==
    [][pc # "new" => \A i \in Cells : board'[i].poss = board[i].poss]_vars

\* C12 witness: a takeback_n_fill has cleared cells and re-filled one, and
\* the cells the search has answered or cleared still have their candidates.
C12_Witness ==
    /\ last.op = "takeback_n_fill"
    /\ pc = "bt_tb"
    /\ Len(history) >= 2
    /\ \E i \in Cells : old[i].ans # NoneAns /\ board[i].ans = NoneAns
                        /\ board[i].poss # {}
    /\ \A k \in 1..Len(history) :
           board[history[k].indx].ans \in board[history[k].indx].poss

(***************************************************************************)
(* The strategy rules: C13                                                 *)
(***************************************************************************)

\* C13: in every state reached by set_puzzle followed by any sequence of
\* strategy rules, every cell whose answer is set has an empty candidate set.
C13_AnsweredHasNoCandidates ==
    \A i \in Cells : board[i].ans # NoneAns => board[i].poss = {}

\* C13 witness: a singles rule has just committed an answer to a cell that
\* had candidates, after an earlier rule call had pruned candidate sets, and
\* other cells are still unanswered.
C13_Witness ==
    /\ last.op \in {"obvious_singles", "hidden_singles_scan"}
    /\ last.changed
    /\ \E i \in Cells : /\ old[i].ans = NoneAns /\ old[i].poss # {}
                        /\ board[i].ans # NoneAns /\ board[i].poss = {}
    /\ \E j \in Cells : /\ board[j].ans = NoneAns
                        /\ board[j].poss # Digits \ {board[k].ans : k \in Peers[j]}

(***************************************************************************)
(* obvious_singles: C14                                                    *)
(***************************************************************************)

\* The cells a call has given an answer.
Committed == {i \in Cells : old[i].ans = NoneAns /\ board[i].ans # NoneAns}

\* C14: after set_puzzle and any sequence of rules, a call of obvious_singles
\* (also one that an IndexError ended) has committed to no cell a value that
\* is the answer of another cell of its row, column or box; and with one row
\* given as 1..9 and all other cells blank it commits nothing.
C14_ObviousSinglesNoRepeat ==
    last.op = "obvious_singles" =>
        /\ \A i \in Committed : \A j \in Peers[i] : board[j].ans # board[i].ans
        /\ given = PuzzleRowGiven => Committed = {}

\* C14 witness: one call of obvious_singles has committed two cells or more.
C14_Witness ==
    /\ last.op = "obvious_singles"
    /\ ~last.raised
    /\ Cardinality(Committed) >= 2
    /\ \E i \in Committed : \E j \in Peers[i] : j \in Committed

(***************************************************************************)
(* obvious_pairs_scan: C15                                                 *)
(***************************************************************************)

\* Cells x < y of unit u had the same two possibilities when the last call began.
PairAtCall(u, x, y) ==
    /\ x \in CellsOf[u] /\ y \in CellsOf[u] /\ x < y
    /\ Cardinality(old[x].poss) = 2
    /\ old[y].poss = old[x].poss

\* The board after a call of obvious_singles made in the current state.
ThenObviousSingles == obvious_singles([b |-> board, ok |-> TRUE, conf |-> conflict])

\* The third cells of unit u: three possibilities at the call, the pair's two
\* among them.
Thirds(u, x, y) ==
    {z \in CellsOf[u] \ {x, y} :
        Cardinality(old[z].poss) = 3 /\ old[x].poss \subseteq old[z].poss}

CellsWith(u, ps) == {i \in CellsOf[u] : old[i].poss \cap ps # {}}

\* ps are three values that each occurred in two or three cells of unit u,
\* all within the same three cells, when the last call began.
HiddenTripletAtCall(u, ps) ==
    /\ Cardinality(ps) = 3
    /\ \A p \in ps : Cardinality(CellsWith(u, {p})) \in {2, 3}
    /\ Cardinality(CellsWith(u, ps)) = 3

\* C16 as stated: after hidden_triplets_scan the three cells of a hidden
\* triplet hold no possibility other than the triplet's three values.
C16_HiddenTripletReduced ==
    last.op = "hidden_triplets_scan" =>
        \A u \in 1..27 : \A ps \in SUBSET Digits :
            HiddenTripletAtCall(u, ps) =>
                \A i \in CellsWith(u, ps) : board[i].poss \subseteq ps

(***************************************************************************)
(* set_puzzle and the grid's shape: C17                                    *)
(***************************************************************************)

\* C17 as stated: set_puzzle from a grid that is not exactly 9 rows by 9
\* columns fails with an error the caller sees, and populates nothing.
C17_MalformedPuzzleFails ==
    (last.op = "set_puzzle" /\ last.val = 1) =>
        (last.raised /\ \A i \in Cells : board[i].ans = NoneAns)

(***************************************************************************)
(* Backtrack.history: C18                                                  *)
(***************************************************************************)

\* The cells that were unanswered when the search began.
BlankAtStart == {i \in Cells : given[i + 1] = 0}

\* The top entry's cell index (-1 for an empty history).
TopIndx == IF Len(history) = 0 THEN -1 ELSE history[Len(history)].indx

\* C18: after any sequence of forward_fill and takeback_n_fill calls made by
\* Backtrack.solve, the history's cell indices are strictly increasing and
\* are exactly the cells unanswered at search start with index at most the
\* top entry's; each such cell's answer is its entry's guess; every cell
\* unanswered at search start with a larger index is unanswered.
C18_StackInvariant ==
    pc \notin {"new", "ready"} =>
        /\ \A k \in 1..(Len(history) - 1) : history[k].indx < history[k + 1].indx
        /\ {history[k].indx : k \in 1..Len(history)} = {i \in BlankAtStart : i <= TopIndx}
        /\ \A k \in 1..Len(history) : board[history[k].indx].ans = history[k].ans
        /\ \A i \in BlankAtStart : i > TopIndx => board[i].ans = NoneAns

\* C18 witness: a takeback_n_fill has cleared and dropped entries and
\* re-filled an earlier cell, with entries below it on the history.
C18_Witness ==
    /\ last.op = "takeback_n_fill"
    /\ pc = "bt_tb"
    /\ Len(history) >= 2
    /\ \E i \in BlankAtStart : i > TopIndx /\ old[i].ans # NoneAns
    /\ board[TopIndx].ans # old[TopIndx].ans

(***************************************************************************)
(* Value order of the search: C19                                          *)
(***************************************************************************)

\* The smallest element of a non-empty set of numbers.
Least(S) == CHOOSE x \in S : \A y \in S : x <= y

\* The values of a list.
Values(l) == {l[j] : j \in 1..Len(l)}

\* C19: forward_fill gives a cell the smallest value of its candidate set,
\* each takeback_n_fill that re-fills a cell gives it the next larger
\* candidate; for every history entry every value of its remaining list is
\* strictly greater than its guess, and an entry that stays on the stack
\* never gets a value it had before (its guess only grows).
C19_FixedValueOrder ==
    [][pc # "new" =>
        /\ \A k \in 1..Len(history') :
               LET e == history'[k]
               IN  /\ \A v \in Values(e.poss_left) : v > e.ans
                   /\ Cardinality(Values(e.poss_left)) = Len(e.poss_left)
                   /\ Values(e.poss_left) = {v \in board[e.indx].poss : v > e.ans}
                   /\ e.ans \in board[e.indx].poss
        /\ Len(history') = Len(history) + 1 =>
               LET e == history'[Len(history')]
               IN  e.ans = Least(board[e.indx].poss) /\ board'[e.indx].ans = e.ans
        /\ pc' = "bt_tb" =>
               LET n == Len(history')
                   e == history[n]
               IN  /\ history'[n].indx = e.indx
                   /\ history'[n].ans = Least({v \in board[e.indx].poss : v > e.ans})
                   /\ board'[e.indx].ans = history'[n].ans
        /\ \A k \in 1..Len(history') :
               (k <= Len(history) /\ history[k].indx = history'[k].indx) =>
                   /\ history'[k].ans >= history[k].ans
                   /\ history'[k].ans # history[k].ans =>
                          history[k].ans \notin Values(history'[k].poss_left)
    ]_vars

\* C19 witness: a takeback_n_fill has given the top cell a second or later
\* candidate while larger candidates remain on its list.
C19_Witness ==
    /\ last.op = "takeback_n_fill"
    /\ pc = "bt_tb"
    /\ Len(history) >= 1
    /\ LET e == history[Len(history)]
       IN  /\ Len(e.poss_left) >= 1
           /\ e.ans # Least(board[e.indx].poss)
           /\ old[e.indx].ans # NoneAns
           /\ old[e.indx].ans < e.ans

(***************************************************************************)
(* Where the search tolerates a repeat: C20                                *)
(***************************************************************************)

\* The units (1..27) that hold a repeated answer.
RepeatUnits == {u \in 1..27 : HasRepeat(board, CellsOf[u])}

\* solve is about to call forward_fill / takeback_n_fill.
CallsForwardFill ==
    \/ pc = "bt_outer" /\ ~puzzle_completed(board)
    \/ pc = "bt_ff" /\ FFCond

CallsTakebackNFill ==
    /\ \/ pc = "bt_ff" /\ ~FFCond
       \/ pc = "bt_tb"
    /\ check4errors(board, RowOf(cur), ColOf(cur))

\* C20: for a starting grid whose givens repeat in no unit: whenever solve
\* invokes forward_fill no unit holds a repeated answer; a repeat exists only
\* in a unit of the top-of-stack cell; takeback_n_fill is invoked only while
\* such a repeat exists.
C20_RepeatOnlyAtTop ==
    (pc \notin {"new", "ready"} /\ NoRepeatedGiven(given)) =>
        /\ CallsForwardFill => RepeatUnits = {}
        /\ \A u \in RepeatUnits : Len(history) > 0 /\ TopIndx \in CellsOf[u]
        /\ CallsTakebackNFill =>
               /\ Len(history) > 0
               /\ cur = TopIndx
               /\ \E u \in RepeatUnits : TopIndx \in CellsOf[u]

\* C20 witness: on a grid with givens, none repeated, a takeback_n_fill has
\* re-filled a cell, the new guess repeats an answer of one of the cell's
\* units, and solve is about to call takeback_n_fill again.
C20_Witness ==
    /\ NoRepeatedGiven(given)
    /\ \E i \in Cells : given[i + 1] # 0
    /\ pc = "bt_tb"
    /\ last.op = "takeback_n_fill"
    /\ Len(history) >= 2
    /\ CallsTakebackNFill
    /\ RepeatUnits # {}

(***************************************************************************)
(* The trial list of a cell: C21                                           *)
(***************************************************************************)

\* The values an entry has tried or has yet to try, as far as the entry
\* tells: its guess and its remaining list.
FromGuessOn(e) == {e.ans} \cup Values(e.poss_left)

\* C21 (as stated): for every empty cell the search visits, the trial list is
\* all nine digits, whatever the cell's candidate set is: the entry pushed by
\* forward_fill holds the guess 1 and the remaining list 2..9.
C21_AllNineTried ==
    [][Len(history') = Len(history) + 1 =>
           FromGuessOn(history'[Len(history')]) = Digits]_vars

\* C21 (amended): the entry pushed by forward_fill holds exactly the values
\* of the cell's candidate set, each once, and no other digit.
C21_TrialListIsCandidates ==
    [][Len(history') = Len(history) + 1 =>
           LET e == history'[Len(history')]
           IN  /\ FromGuessOn(e) = board[e.indx].poss
               /\ Len(e.poss_left) + 1 = Cardinality(board[e.indx].poss)]_vars

\* C21 witness: forward_fill has just pushed an entry for a cell whose
\* candidate set is a proper subset of the digits with more than one value.
C21_Witness ==
    /\ last.op = "forward_fill"
    /\ pc = "bt_ff"
    /\ Len(history) >= 1
    /\ LET e == history[Len(history)]
       IN  /\ board[e.indx].poss # Digits
           /\ Cardinality(board[e.indx].poss) >= 2
           /\ FromGuessOn(e) = board[e.indx].poss
           /\ old[e.indx].ans = NoneAns

(***************************************************************************)
(* Dead end in forward_fill: C22                                           *)
(***************************************************************************)

\* The unanswered cells forward_fill's scan can reach: those after the top
\* entry's cell.
AheadUnanswered == {i \in Cells : i > TopIndx /\ board[i].ans = NoneAns}

\* C22: when the next unanswered cell found by forward_fill has an empty
\* candidate set, forward_fill ends in a fatal failure (no coordinates are
\* returned), pushes no history entry and changes no cell's answer.
C22_DeadEndIsFatal ==
    [][(/\ CallsForwardFill
        /\ AheadUnanswered # {}
        /\ board[Least(AheadUnanswered)].poss = {})
       => /\ pc' = "bt_dead"
          /\ last'.op = "forward_fill" /\ last'.raised
          /\ cur' = cur
          /\ history' = history
          /\ \A i \in Cells : board'[i].ans = board[i].ans]_vars

\* C22 witness: forward_fill has failed on a cell without candidates, with
\* entries on the history and that cell still unanswered.
C22_Witness ==
    /\ pc = "bt_dead"
    /\ last.op = "forward_fill" /\ last.raised
    /\ Len(history) >= 1
    /\ AheadUnanswered # {}
    /\ board[Least(AheadUnanswered)].poss = {}

(***************************************************************************)
(* The board after an exhausted search: C23                                *)
(***************************************************************************)

\* C23: when takeback_n_fill fails fatally because the history became empty,
\* every cell that was unanswered at search start is unanswered again and
\* every given is unchanged: the board's answers equal the starting grid.
C23_ExhaustedRestoresStart ==
    pc = "bt_exhausted" =>
        /\ last.op = "takeback_n_fill" /\ last.raised
        /\ history = <<>>
        /\ \A i \in Cells :
               board[i].ans = IF given[i + 1] = 0 THEN NoneAns ELSE given[i + 1]

\* C23 witness: the failing takeback_n_fill call cleared at least two cells
\* of a grid that has givens.
C23_Witness ==
    /\ pc = "bt_exhausted"
    /\ Cardinality({i \in BlankAtStart : old[i].ans # NoneAns}) >= 2
    /\ \E i \in Cells : given[i + 1] # 0

(***************************************************************************)
(* apply_singles: C24                                                      *)
(***************************************************************************)

\* The cells with exactly one candidate.
ObviousSingleCells(b) == {i \in Cells : Cardinality(b[i].poss) = 1}

\* The (unit, value) pairs where the value is a candidate of exactly one cell
\* of the unit.
HiddenSingleSpots(b) ==
    {<<u, v>> \in (1..27) \X Digits : CountPoss(b, Units[u], v) = 1}

\* C24: when apply_singles returns, the board is a fixed point of both single
\* rules: no cell has exactly one candidate, and in no row, column or box is
\* a value a candidate of exactly one cell.
C24_SinglesFixedPoint ==
    pc = "chk" =>
        /\ ObviousSingleCells(board) = {}
        /\ HiddenSingleSpots(board) = {}

\* C24 witness: apply_singles has returned after passes that changed the
\* board, and cells with several candidates are left.
C24_Witness ==
    /\ pc = "chk"
    /\ last.op = "hidden_singles_scan" /\ ~last.changed
    /\ ~quiet
    /\ \E i \in Cells : Cardinality(board[i].poss) >= 2

(***************************************************************************)
(* apply_singles ends: C25                                                 *)
(***************************************************************************)

\* The total number of candidates on the board.
TotalPoss(b) == Cardinality({<<i, v>> \in Cells \X Digits : v \in b[i].poss})

\* How far apply_singles is from its end: twice the candidates left, plus
\* one while the obvious_singles call of the current round is still to come.
SinglesRank == 2 * TotalPoss(board) + (IF pc = "os" THEN 1 ELSE 0)

\* C25: every pass of obvious_singles or hidden_singles_scan made by
\* apply_singles that reports progress strictly decreases the total number
\* of candidates, so the loop cannot run forever: every step that stays in
\* the loop lowers a natural number (SinglesRank).
C25_SinglesTerminate ==
    [][(pc \in {"os", "hs"}) =>
          (/\ last'.changed => TotalPoss(board') < TotalPoss(board)
           /\ pc' \in {"os", "hs"} => SinglesRank' < SinglesRank
           /\ pc' \in {"os", "hs", "chk", "crashed"})]_vars

\* C25 witness: inside apply_singles a hidden_singles_scan has reported
\* progress after an obvious_singles that found nothing, and cells are still
\* unanswered: the loop goes round again.
C25_Witness ==
    /\ pc = "os"
    /\ last.op = "hidden_singles_scan" /\ last.changed
    /\ TotalPoss(board) < TotalPoss(old)
    /\ TotalPoss(board) > 0

(***************************************************************************)
(* obvious_singles on cells that share their last candidate: C26           *)
(***************************************************************************)

\* C26 (as stated): in every reachable board state, also when two cells of a
\* unit have the same single candidate, an obvious_singles call completes and
\* leaves every cell that had exactly one candidate at the start of the call
\* answered with that candidate.
C26_ObviousSinglesCompletes ==
    last.op = "obvious_singles" =>
        /\ ~last.raised
        /\ \A i \in ObviousSingleCells(old) : board[i].ans \in old[i].poss

\* C26, the part that holds: a cell that had exactly one candidate at the
\* start of an obvious_singles call that completes is answered with it.
C26_CompletedCallCommits ==
    (last.op = "obvious_singles" /\ ~last.raised) =>
        \A i \in ObviousSingleCells(old) : board[i].ans \in old[i].poss

\* C26 failing state: an obvious_singles call has been left by an exception
\* with a cell that had exactly one candidate at its start still unanswered.
C26_Witness ==
    /\ last.op = "obvious_singles" /\ last.raised
    /\ pc = "crashed"
    /\ \E i \in ObviousSingleCells(old) : \E j \in ObviousSingleCells(old) \cap Peers[i] :
           /\ old[i].poss = old[j].poss
           /\ board[i].ans \in old[i].poss
           /\ board[j].ans = NoneAns

(***************************************************************************)
(* pointing_sets: C27                                                      *)
(***************************************************************************)

\* The cells of a set that have v as a candidate on board b.
Holders(b, cells, v) == {i \in cells : v \in b[i].poss}

\* The (line, square, value) triples at the start of the last call where the
\* line's cells holding the value all lie in the square; lines are the units
\* 1..18, squares 0..8.
LinePoints ==
    {t \in (1..18) \X (0..8) \X Digits :
        /\ Holders(old, CellsOf[t[1]], t[3]) # {}
        /\ Holders(old, CellsOf[t[1]], t[3]) \subseteq SqrCells(t[2])}

\* The (square, line, value) triples at the start of the last call where the
\* square's cells holding the value all lie in the line.
SqrPoints ==
    {t \in (0..8) \X (1..18) \X Digits :
        /\ Holders(old, SqrCells(t[1]), t[3]) # {}
        /\ Holders(old, SqrCells(t[1]), t[3]) \subseteq CellsOf[t[2]]}

\* A pointing_sets call has just returned on a board that came from givens
\* with a solution.
AfterPointingSets == last.op = "pointing_sets" /\ ~last.raised /\ nsol >= 1

\* What the call must have removed: the value from the rest of the square
\* (line points) and from the rest of the line (square points).
PointingRemoved ==
    /\ \A t \in LinePoints :
           \A i \in SqrCells(t[2]) \ CellsOf[t[1]] : t[3] \notin board[i].poss
    /\ \A t \in SqrPoints :
           \A i \in CellsOf[t[2]] \ SqrCells(t[1]) : t[3] \notin board[i].poss

\* C27 (as stated): after a pointing_sets call on a board consistent with a
\* solution, for every value and every row or column whose occurrences of it
\* at the start all lie in one box, no cell of the box outside the line has
\* it, likewise for every box whose occurrences all lie in one line, and the
\* cells of the line-box intersection keep the value.
C27_PointingKeepsIntersection ==
    AfterPointingSets =>
        /\ PointingRemoved
        /\ \A t \in LinePoints :
               \A i \in Holders(old, CellsOf[t[1]], t[3]) : t[3] \in board[i].poss
        /\ \A t \in SqrPoints :
               \A i \in Holders(old, SqrCells(t[1]), t[3]) : t[3] \in board[i].poss

\* C27 (amended): the removals as stated; of the cells of the line-box
\* intersection that had the value, at least one keeps it.
C27_PointingApplied ==
    AfterPointingSets =>
        /\ PointingRemoved
        /\ \A t \in LinePoints : Holders(board, CellsOf[t[1]], t[3]) # {}
        /\ \A t \in SqrPoints : Holders(board, SqrCells(t[1]), t[3]) # {}

\* C27 witness: a pointing_sets call has removed, from a cell outside the
\* line of a line point, a value the cell had at the start.
C27_Witness ==
    /\ AfterPointingSets
    /\ last.changed
    /\ \E t \in LinePoints :
           /\ Cardinality(Holders(old, CellsOf[t[1]], t[3])) >= 2
           /\ \E i \in SqrCells(t[2]) \ CellsOf[t[1]] :
                  t[3] \in old[i].poss /\ t[3] \notin board[i].poss

(***************************************************************************)
(* The solution Backtrack.solve returns: C28                               *)
(***************************************************************************)

\* Grids with at most this many blanks are compared with the computed
\* smallest solution; larger ones with the known complete grids only.
LexBlanks == 16

\* The number of blank cells of g.
NumBlanks(g) == Cardinality({k \in 1..81 : g[k] = 0})

\* a is not after c in lexicographic order (row-major).
LexLeq(a, c) ==
    \/ a = c
    \/ \E k \in 1..81 : a[k] < c[k] /\ \A j \in 1..(k - 1) : a[j] = c[j]

\* The lexicographically smallest completion of g, whose cells before k are
\* filled (g has a completion): the blanks in increasing index order, each
\* with the smallest value that still has a completion.
RECURSIVE LexMin(_, _)
LexMin(g, k) ==
    LET n == NextBlank(g, k)
    IN  IF n > 80 THEN g
        ELSE LET vs == {v \in Free(g, n) : Solvable([g EXCEPT ![n + 1] = v], n + 1)}
             IN  LexMin([g EXCEPT ![n + 1] = Least(vs)], n + 1)

\* The complete grids the starting grids are cut from.
KnownSolutions == {Solved, SolvedTwin, SolvedRow, SolvedRowTwin}

\* C28: for a starting grid with at least one solution and at least one blank
\* cell, the grid Backtrack.solve ends with is the lexicographically smallest
\* solution of the givens (blank cells compared in increasing index order);
\* being a function of the givens, it is the same in every run.
C28_FirstSolutionInOrder ==
    (pc = "bt_done" /\ nsol >= 1 /\ HasBlank(given)) =>
        /\ Completes(Answers(board), given)
        /\ \A S \in KnownSolutions :
               Completes(S, given) => LexLeq(Answers(board), S)
        /\ NumBlanks(given) <= LexBlanks => Answers(board) = LexMin(given, 0)

\* C28 witness: solve has returned on a grid that two different complete
\* grids complete, after taking guesses back.
C28_Witness ==
    /\ pc = "bt_done"
    /\ nsol = 2
    /\ Cardinality({S \in KnownSolutions : Completes(S, given)}) = 2
    /\ NumBlanks(given) <= LexBlanks
    /\ \E k \in 1..Len(history) :
           history[k].ans # Least(board[history[k].indx].poss)

(***************************************************************************)
(* check4errors against the full scan: C29                                 *)
(***************************************************************************)

\* The duplicate scan of check4errors_full: some row, column or square holds
\* a repeated answer.
DupAnywhere(b) == \E u \in 1..27 : HasRepeat(b, CellsOf[u])

\* The board before set_cell_bt wrote at cell i, as far as repeats go: cell i
\* without an answer (what it held before does not matter to the write).
Unwritten(b, i) == [b EXCEPT ![i].ans = NoneAns]

\* C29: if no row, column or box held a repeated answer before set_cell_bt
\* wrote a value at (r,c), then check4errors(r,c) is true exactly when some
\* row, column or box anywhere on the board holds a repeated answer.
C29_LocalCheckIsFull ==
    (pc \in {"bt_ff", "bt_tb"} /\ ~DupAnywhere(Unwritten(board, cur))) =>
        (check4errors(board, RowOf(cur), ColOf(cur)) <=> DupAnywhere(board))

\* C29 witness: the value just written repeats an answer of its column and
\* of no other unit, on a board that had no repeat before.
C29_Witness ==
    /\ pc \in {"bt_ff", "bt_tb"}
    /\ ~DupAnywhere(Unwritten(board, cur))
    /\ board[cur].ans # NoneAns
    /\ HasRepeat(board, ColCells(ColOf(cur)))
    /\ ~HasRepeat(board, RowCells(RowOf(cur)))
    /\ ~HasRepeat(board, SqrCells(SqrOf(cur)))

(***************************************************************************)
(* The rules only take away: C30                                           *)
(***************************************************************************)

\* C30: no strategy rule (hidden pairs and hidden triplets, which rewrite
\* candidate sets, included) ever adds a value to a cell's candidate set, and
\* no rule ever changes or clears an answer that is already set.
C30_RulesMonotone ==
    [][pc = "ready" =>
          \A i \in Cells :
              /\ board'[i].poss \subseteq board[i].poss
              /\ board[i].ans # NoneAns => board'[i].ans = board[i].ans]_vars

\* C30 witness: hidden_pairs_scan has rewritten a candidate set to a pair it
\* held among other values, on a board with answers.
C30_Witness ==
    /\ last.op = "hidden_pairs_scan"
    /\ last.changed
    /\ \E i \in Cells :
           /\ Cardinality(board[i].poss) = 2
           /\ Cardinality(old[i].poss) >= 3
           /\ board[i].poss \subseteq old[i].poss
    /\ \E i \in Cells : old[i].ans # NoneAns /\ board[i].ans = old[i].ans

(***************************************************************************)
(* The givens during the search: C31                                       *)
(***************************************************************************)

\* The cells answered at search start.
GivenCells == Cells \ BlankAtStart

\* C31: throughout Backtrack.solve, forward_fill and takeback_n_fill write
\* only to cells that were unanswered at search start: every cell answered at
\* search start holds its given before and after every step, and every
\* history entry is for a cell that was unanswered at search start.
C31_GivensUntouched ==
    [][pc # "new" =>
          /\ \A i \in GivenCells :
                 board[i].ans = given[i + 1] /\ board'[i].ans = given[i + 1]
          /\ \A i \in Cells : board'[i].ans # board[i].ans => i \in BlankAtStart
          /\ \A k \in 1..Len(history') : history'[k].indx \in BlankAtStart]_vars

\* C31 witness: the search has filled cells on both sides of a given and a
\* takeback_n_fill has changed a guess.
C31_Witness ==
    /\ pc = "bt_tb"
    /\ last.op = "takeback_n_fill"
    /\ \E k \in 1..(Len(history) - 1) :
           \E i \in GivenCells : history[k].indx < i /\ i < history[k + 1].indx
    /\ \E i \in BlankAtStart : old[i].ans # NoneAns /\ board[i].ans # old[i].ans

====
